---- MODULE Spec2Model ----
(***************************************************************************)
(* A model of the milky chess engine: bitboards as sets of squares, the    *)
(* pseudo-legal move generator, make/undo with incremental Zobrist         *)
(* hashing, the transposition table and the iterative-deepening search.    *)
(*                                                                         *)
(* A BitBoard is modelled as the set of the indices of its set bits, a     *)
(* ZobristKey (u64) likewise as the set of its set bit positions, so that  *)
(* xor is symmetric difference and the keys are the very keys the engine   *)
(* draws from its xorshift32 generator.                                    *)
(***************************************************************************)
EXTENDS Integers, Sequences, FiniteSets, TLC

(***************************************************************************)
(* Bounds of the model (not program constants).                            *)
(***************************************************************************)
MaxSnapshots == 2

(***************************************************************************)
(* Program constants.                                                      *)
(***************************************************************************)
MAX_PLY == 64
MAX_REPETITIONS == 1024
INFINITY == 50000
MATE_UPPER_BOUND == 49000
MATE_LOWER_BOUND == 48000

White == 0
Black == 1
Both == 2

WhitePawn == 0
WhiteKnight == 1
WhiteBishop == 2
WhiteRook == 3
WhiteQueen == 4
WhiteKing == 5
BlackPawn == 6
BlackKnight == 7
BlackBishop == 8
BlackRook == 9
BlackQueen == 10
BlackKing == 11

NoPromotion == 0
PromoKnight == 1
PromoBishop == 2
PromoRook == 3
PromoQueen == 4

CAPTURE == 1
DOUBLE_PUSH == 2
EN_PASSANT == 4
CASTLING == 8

WHITE_K == 1
WHITE_Q == 2
BLACK_K == 4
BLACK_Q == 8

OffBoard == 64
A8 == 0
B8 == 1
C8 == 2
D8 == 3
E8 == 4
F8 == 5
G8 == 6
H8 == 7
A1 == 56
B1 == 57
C1 == 58
D1 == 59
E1 == 60
F1 == 61
G1 == 62
H1 == 63

Squares == 0..63
PieceIds == 0..11

(***************************************************************************)
(* Small helpers over sets and sequences.                                  *)
(***************************************************************************)
Min(S) == CHOOSE x \in S : \A y \in S : x <= y

\* A function value in tabulated form, so that a table is computed once.
Explicit(f) == IF f = f THEN f ELSE f

RECURSIVE SortedSeq(_)
SortedSeq(S) == IF S = {} THEN <<>> ELSE LET m == Min(S) IN <<m>> \o SortedSeq(S \ {m})

\* The concatenation of a sequence of sequences.
RECURSIVE Concat(_)
Concat(ss) == IF ss = <<>> THEN <<>> ELSE Head(ss) \o Concat(Tail(ss))

\* Rust's integer division truncates toward zero.
TruncDiv(a, b) == IF a >= 0 THEN a \div b ELSE -((-a) \div b)

\* Bit k of the natural number n.
Bit(n, k) == (n \div (2 ^ k)) % 2

\* Bitwise and of two 4-bit sets (CastlingRights::intersection).
And4(a, b) == (Bit(a, 0) * Bit(b, 0)) + 2 * (Bit(a, 1) * Bit(b, 1))
              + 4 * (Bit(a, 2) * Bit(b, 2)) + 8 * (Bit(a, 3) * Bit(b, 3))

RECURSIVE BitOr(_, _)
BitOr(a, b) == IF a = 0 THEN b
               ELSE IF b = 0 THEN a
               ELSE (IF a % 2 = 1 \/ b % 2 = 1 THEN 1 ELSE 0) + 2 * BitOr(a \div 2, b \div 2)

(***************************************************************************)
(* Pieces and squares.                                                     *)
(***************************************************************************)
PieceSide(p) == IF p < 6 THEN White ELSE Black
PieceKind(p) == p % 6
enemy(side) == IF side = White THEN Black ELSE White
white_pieces_range == 0..5
black_pieces_range == 6..11

one_forward(sq) == IF sq - 8 >= 0 THEN sq - 8 ELSE OffBoard
one_backward(sq) == IF sq + 8 > H1 THEN OffBoard ELSE sq + 8
mirror(sq) == (7 - (sq \div 8)) * 8 + (sq % 8)
is_available(sq) == sq # OffBoard

Seventh == 6
Second == 1
\* Rank::Second is a2..h2 (squares 48..55), Rank::Seventh is a7..h7 (8..15).
is_on_rank(sq, rank) == IF rank = Second THEN sq >= 48 /\ sq <= 55
                        ELSE IF rank = Seventh THEN sq >= 8 /\ sq <= 15
                        ELSE FALSE

\* The least set bit of a bitboard; 64 on the empty board.
trailing_zeros(bb) == IF bb = {} THEN 64 ELSE Min(bb)

(***************************************************************************)
(* Attack tables.                                                          *)
(***************************************************************************)
EMPTY_A_FILE == {s \in Squares : s % 8 # 0}
EMPTY_H_FILE == {s \in Squares : s % 8 # 7}
EMPTY_GH_FILE == {s \in Squares : s % 8 < 6}
EMPTY_AB_FILE == {s \in Squares : s % 8 > 1}

Shr(bb, n) == {s - n : s \in {t \in bb : t - n >= 0}}
Shl(bb, n) == {s + n : s \in {t \in bb : t + n <= 63}}

compute_pawn_attacks(side, square) ==
    LET bitboard == {square}
    IN IF side = White
       THEN (Shr(bitboard, 7) \cap EMPTY_A_FILE) \cup (Shr(bitboard, 9) \cap EMPTY_H_FILE)
       ELSE (Shl(bitboard, 7) \cap EMPTY_H_FILE) \cup (Shl(bitboard, 9) \cap EMPTY_A_FILE)

compute_knight_attacks(square) ==
    LET bitboard == {square}
    IN (Shr(bitboard, 17) \cap EMPTY_H_FILE) \cup (Shr(bitboard, 15) \cap EMPTY_A_FILE)
       \cup (Shr(bitboard, 10) \cap EMPTY_GH_FILE) \cup (Shr(bitboard, 6) \cap EMPTY_AB_FILE)
       \cup (Shl(bitboard, 17) \cap EMPTY_A_FILE) \cup (Shl(bitboard, 15) \cap EMPTY_H_FILE)
       \cup (Shl(bitboard, 10) \cap EMPTY_AB_FILE) \cup (Shl(bitboard, 6) \cap EMPTY_GH_FILE)

compute_king_attacks(square) ==
    LET bitboard == {square}
    IN (Shr(bitboard, 7) \cap EMPTY_A_FILE) \cup Shr(bitboard, 8)
       \cup (Shr(bitboard, 9) \cap EMPTY_H_FILE) \cup (Shl(bitboard, 7) \cap EMPTY_H_FILE)
       \cup Shl(bitboard, 8) \cup (Shl(bitboard, 9) \cap EMPTY_A_FILE)
       \cup (Shl(bitboard, 1) \cap EMPTY_A_FILE) \cup (Shr(bitboard, 1) \cap EMPTY_H_FILE)

PAWN_ATTACKS ==
    Explicit([side \in {White, Black} |-> [sq \in Squares |-> compute_pawn_attacks(side, sq)]])
KNIGHT_ATTACKS == Explicit([sq \in Squares |-> compute_knight_attacks(sq)])
KING_ATTACKS == Explicit([sq \in Squares |-> compute_king_attacks(sq)])

BishopDirections == <<<<1, 1>>, <<-1, 1>>, <<1, -1>>, <<-1, -1>>>>
RookDirections == <<<<0, 1>>, <<1, 0>>, <<-1, 0>>, <<0, -1>>>>

\* The squares of one ray from (r, f), walked until the edge or a blocker,
\* the blocker's square included.
RECURSIVE AttackRay(_, _, _, _, _)
AttackRay(r, f, rank_dir, file_dir, blockers) ==
    IF r >= 0 /\ r < 8 /\ f >= 0 /\ f < 8
    THEN LET index == r * 8 + f
         IN IF index \in blockers
            THEN {index}
            ELSE {index} \cup AttackRay(r + rank_dir, f + file_dir, rank_dir, file_dir, blockers)
    ELSE {}

SliderAttacks(square, blockers, directions) ==
    LET rank == square \div 8
        file == square % 8
    IN UNION {AttackRay(rank + directions[i][1], file + directions[i][2],
                        directions[i][1], directions[i][2], blockers) : i \in 1..4}

compute_bishop_attacks(square, blockers) == SliderAttacks(square, blockers, BishopDirections)
compute_rook_attacks(square, blockers) == SliderAttacks(square, blockers, RookDirections)

RECURSIVE BishopBlockerRay(_, _, _, _)
BishopBlockerRay(r, f, rank_dir, file_dir) ==
    IF r >= 1 /\ r < 7 /\ f >= 1 /\ f < 7
    THEN {r * 8 + f} \cup BishopBlockerRay(r + rank_dir, f + file_dir, rank_dir, file_dir)
    ELSE {}

compute_bishop_blockers(square) ==
    LET rank == square \div 8
        file == square % 8
    IN UNION {BishopBlockerRay(rank + BishopDirections[i][1], file + BishopDirections[i][2],
                               BishopDirections[i][1], BishopDirections[i][2]) : i \in 1..4}

RECURSIVE RookBlockerRay(_, _, _, _)
RookBlockerRay(r, f, rank_dir, file_dir) ==
    IF r >= 0 /\ r < 8 /\ f >= 0 /\ f < 8
    THEN IF (rank_dir # 0 /\ (r = 0 \/ r = 7)) \/ (file_dir # 0 /\ (f = 0 \/ f = 7))
         THEN {}
         ELSE {r * 8 + f} \cup RookBlockerRay(r + rank_dir, f + file_dir, rank_dir, file_dir)
    ELSE {}

compute_rook_blockers(square) ==
    LET rank == square \div 8
        file == square % 8
    IN UNION {RookBlockerRay(rank + RookDirections[i][1], file + RookDirections[i][2],
                             RookDirections[i][1], RookDirections[i][2]) : i \in 1..4}

BISHOP_BLOCKERS == Explicit([sq \in Squares |-> compute_bishop_blockers(sq)])
ROOK_BLOCKERS == Explicit([sq \in Squares |-> compute_rook_blockers(sq)])

\* The magic multiplication is a perfect hash of the masked occupancy, so
\* the looked-up entry is the ray walk over the masked occupancy.
get_bishop_attacks(square, occupancy) ==
    compute_bishop_attacks(square, occupancy \cap BISHOP_BLOCKERS[square])

get_rook_attacks(square, occupancy) ==
    compute_rook_attacks(square, occupancy \cap ROOK_BLOCKERS[square])

get_queen_attacks(square, occupancy) ==
    get_bishop_attacks(square, occupancy) \cup get_rook_attacks(square, occupancy)

CASTLING_RIGHTS ==
    << 7, 15, 15, 15,  3, 15, 15, 11,
      15, 15, 15, 15, 15, 15, 15, 15,
      15, 15, 15, 15, 15, 15, 15, 15,
      15, 15, 15, 15, 15, 15, 15, 15,
      15, 15, 15, 15, 15, 15, 15, 15,
      15, 15, 15, 15, 15, 15, 15, 15,
      15, 15, 15, 15, 15, 15, 15, 15,
      13, 15, 15, 15, 12, 15, 15, 14 >>

(***************************************************************************)
(* Move encoding: a 32-bit word, kept as the number it is.                 *)
(***************************************************************************)
\* An encoding that puts the promoted piece one bit too low.
Move_new_promoted_at_15(source, target, piece, promoted, flags) ==
    BitOr(BitOr(BitOr(BitOr(source, target * 64), piece * 4096), promoted * 32768),
          flags * 1048576)

Move_new(source, target, piece, promoted, flags) ==
    IF source < 64 /\ target < 64 /\ piece < 16 /\ promoted < 16
    THEN \* the five fields occupy disjoint bit ranges: or is addition
         source + (target * 64) + (piece * 4096) + (promoted * 65536) + (flags * 1048576)
    ELSE BitOr(BitOr(BitOr(BitOr(source, target * 64), piece * 4096), promoted * 65536),
               flags * 1048576)

MoveDefault == 0
source(m) == m % 64
target(m) == (m \div 64) % 64
piece(m) == (m \div 4096) % 16
promotion(m) == (m \div 65536) % 16
is_capture(m) == Bit(m, 20) = 1
is_double_push(m) == Bit(m, 21) = 1
is_en_passant(m) == Bit(m, 22) = 1
is_castling(m) == Bit(m, 23) = 1
is_promoting(promo) == promo # NoPromotion

into_piece(promo, side) ==
    CASE promo = NoPromotion -> IF side = White THEN WhitePawn ELSE BlackPawn
      [] promo = PromoKnight -> IF side = White THEN WhiteKnight ELSE BlackKnight
      [] promo = PromoBishop -> IF side = White THEN WhiteBishop ELSE BlackBishop
      [] promo = PromoRook -> IF side = White THEN WhiteRook ELSE BlackRook
      [] promo = PromoQueen -> IF side = White THEN WhiteQueen ELSE BlackQueen

(***************************************************************************)
(* Zobrist keys.  A u32 or u64 is the set of its set bit positions.        *)
(***************************************************************************)
Xor(a, b) == (a \ b) \cup (b \ a)

RECURSIVE BitsOf(_, _)
BitsOf(v, i) == IF v = 0 THEN {}
                ELSE (IF v % 2 = 1 THEN {i} ELSE {}) \cup BitsOf(v \div 2, i + 1)

RandomSeed == 1804289383

Shl32(n, k) == {b + k : b \in {c \in n : c + k < 32}}
Shr32(n, k) == {b - k : b \in {c \in n : c - k >= 0}}

\* One xorshift32 step; the result is both the new state and the number drawn.
gen_u32(state) ==
    LET n1 == Xor(state, Shl32(state, 13))
        n2 == Xor(n1, Shr32(n1, 17))
    IN Xor(n2, Shl32(n2, 5))

\* xorshift32 is linear over GF(2) (shifts and xors only), so n steps are a
\* 32x32 bit matrix: column c is the image of the number with only bit c set.
Linear(matrix, state) ==
    {b \in 0..31 : Cardinality({c \in state : b \in matrix[c]}) % 2 = 1}

\* The matrix of 2^j steps of gen_u32.
RECURSIVE StepPower(_)
StepPower(j) ==
    IF j = 0 THEN Explicit([c \in 0..31 |-> gen_u32({c})])
    ELSE LET half == StepPower(j - 1)
         IN Explicit([c \in 0..31 |-> Linear(half, half[c])])

StepPowers == Explicit([j \in 0..11 |-> StepPower(j)])

\* The generator state after n draws from state, n < 4096.
RECURSIVE RandomStateAfter(_, _, _)
RandomStateAfter(n, j, state) ==
    IF n = 0 THEN state
    ELSE RandomStateAfter(n \div 2, j + 1,
                          IF n % 2 = 1 THEN Linear(StepPowers[j], state) ELSE state)

Low16At(n, offset) == {b + offset : b \in {c \in n : c < 16}}

\* The k-th (from 0) u64 drawn by gen_u64 since Zobrist::init seeded the
\* generator: four consecutive u32 draws, the low 16 bits of each.
gen_u64(k) ==
    LET start == RandomStateAfter(4 * k, 0, BitsOf(RandomSeed, 0))
        n1 == gen_u32(start)
        n2 == gen_u32(n1)
        n3 == gen_u32(n2)
        n4 == gen_u32(n3)
    IN Low16At(n1, 0) \cup Low16At(n2, 16) \cup Low16At(n3, 32) \cup Low16At(n4, 48)

ZobristKeyDefault == {}
pieces_table == Explicit([p \in PieceIds |-> [sq \in Squares |-> gen_u64(p * 64 + sq)]])
en_passant_keys == Explicit([sq \in Squares |-> gen_u64(768 + sq)])
castling_rights_keys == Explicit([idx \in 0..15 |-> gen_u64(832 + idx)])
side_key == gen_u64(848)

RECURSIVE XorAll(_)
XorAll(keys) == IF keys = <<>> THEN ZobristKeyDefault ELSE Xor(Head(keys), XorAll(Tail(keys)))

PieceSquareKeys(boards, p) == [i \in 1..Len(SortedSeq(boards[p])) |->
                                  pieces_table[p][SortedSeq(boards[p])[i]]]

hash_position(boards, stm, ep, rights) ==
    LET k1 == XorAll([p \in 1..12 |-> XorAll(PieceSquareKeys(boards, p - 1))])
        k2 == IF is_available(ep) THEN Xor(k1, en_passant_keys[ep]) ELSE k1
        k3 == Xor(k2, castling_rights_keys[rights])
    IN IF stm = Black THEN Xor(k3, side_key) ELSE k3

(***************************************************************************)
(* Board state.                                                            *)
(***************************************************************************)
EmptyBoards == [p \in PieceIds |-> {}]

BoardState_new ==
    [pieces |-> EmptyBoards,
     occupancies |-> [s \in 0..2 |-> {}],
     side_to_move |-> White,
     castling_rights |-> 15,
     en_passant |-> OffBoard,
     snapshots |-> <<>>,
     ply |-> 0,
     repetition_table |-> <<>>,
     repetition_index |-> 0,
     fifty_move_counter |-> 0]

\* A fixed-size array is kept as the function of its written slots; slot i
\* of the repetition table is RepetitionAt(b, i).
ArrGet(arr, i, default) == IF i \in DOMAIN arr THEN arr[i] ELSE default
ArrSet(arr, i, v) == [j \in (DOMAIN arr) \cup {i} |-> IF j = i THEN v ELSE arr[j]]
RepetitionAt(b, i) == ArrGet(b.repetition_table, i, ZobristKeyDefault)

snapshot_board(b, zpos) ==
    [b EXCEPT !.snapshots = Append(@,
        [boards |-> b.pieces,
         occupancies |-> b.occupancies,
         side_to_move |-> b.side_to_move,
         en_passant |-> b.en_passant,
         castling_rights |-> b.castling_rights,
         position_key |-> zpos,
         fifty_move_counter |-> b.fifty_move_counter])]

\* undo_move: the restored board and the key it returns.  Callers ensure
\* the stack is not empty (the code panics otherwise).
\* undo_move that forgets to restore the en passant square.
undo_move_keeps_en_passant(b) ==
    LET snapshot == b.snapshots[Len(b.snapshots)]
    IN [board |-> [b EXCEPT !.snapshots = SubSeq(@, 1, Len(@) - 1),
                            !.pieces = snapshot.boards,
                            !.occupancies = snapshot.occupancies,
                            !.side_to_move = snapshot.side_to_move,
                            !.castling_rights = snapshot.castling_rights,
                            !.fifty_move_counter = snapshot.fifty_move_counter],
        key |-> snapshot.position_key]

undo_move(b) ==
    LET snapshot == b.snapshots[Len(b.snapshots)]
    IN [board |-> [b EXCEPT !.snapshots = SubSeq(@, 1, Len(@) - 1),
                            !.pieces = snapshot.boards,
                            !.occupancies = snapshot.occupancies,
                            !.side_to_move = snapshot.side_to_move,
                            !.en_passant = snapshot.en_passant,
                            !.castling_rights = snapshot.castling_rights,
                            !.fifty_move_counter = snapshot.fifty_move_counter],
        key |-> snapshot.position_key]

\* record_repetition writes slot repetition_index + 1; an index past the
\* table is an out-of-bounds panic.
record_repetition_panics(b) == b.repetition_index + 1 >= MAX_REPETITIONS

record_repetition(b, zpos) ==
    [b EXCEPT !.repetition_index = @ + 1,
              !.repetition_table = ArrSet(@, b.repetition_index + 1, zpos)]

BoardState_reset(b) ==
    [b EXCEPT !.ply = 0, !.repetition_table = <<>>, !.repetition_index = 0]

is_attacked(attacks, other) == attacks \cap other # {}

\* Indexing an attack table with square 64 (no king on the board) panics.
is_square_attacked_panics(square) == square > 63

\* is_square_attacked that forgets the bishops.
is_square_attacked_no_bishops(b, square, side) ==
    LET pawn_side == IF side = White THEN Black ELSE White
        base == IF side = White THEN 0 ELSE 6
        occupancy == b.occupancies[Both]
    IN \/ is_attacked(PAWN_ATTACKS[pawn_side][square], b.pieces[base + WhitePawn])
       \/ is_attacked(KNIGHT_ATTACKS[square], b.pieces[base + WhiteKnight])
       \/ is_attacked(KING_ATTACKS[square], b.pieces[base + WhiteKing])
       \/ is_attacked(get_rook_attacks(square, occupancy), b.pieces[base + WhiteRook])
       \/ is_attacked(get_queen_attacks(square, occupancy), b.pieces[base + WhiteQueen])

is_square_attacked(b, square, side) ==
    LET pawn_side == IF side = White THEN Black ELSE White
        base == IF side = White THEN 0 ELSE 6
        pawn_board == b.pieces[base + WhitePawn]
        knight_board == b.pieces[base + WhiteKnight]
        king_board == b.pieces[base + WhiteKing]
        bishop_board == b.pieces[base + WhiteBishop]
        rook_board == b.pieces[base + WhiteRook]
        queen_board == b.pieces[base + WhiteQueen]
        occupancy == b.occupancies[Both]
    IN \/ is_attacked(PAWN_ATTACKS[pawn_side][square], pawn_board)
       \/ is_attacked(KNIGHT_ATTACKS[square], knight_board)
       \/ is_attacked(KING_ATTACKS[square], king_board)
       \/ is_attacked(get_bishop_attacks(square, occupancy), bishop_board)
       \/ is_attacked(get_rook_attacks(square, occupancy), rook_board)
       \/ is_attacked(get_queen_attacks(square, occupancy), queen_board)

(***************************************************************************)
(* Move generation (pseudo-legal).  The move buffer is the sequence of the *)
(* move_count moves written by the generator, in the order written.        *)
(***************************************************************************)
PromotionOptions == <<PromoKnight, PromoBishop, PromoRook, PromoQueen>>

PawnMovesFrom(b, square, pc) ==
    LET stm == b.side_to_move
        promotion_rank == IF stm = White THEN Seventh ELSE Second
        initial_rank == IF stm = White THEN Second ELSE Seventh
        fwd == IF stm = White THEN one_forward(square) ELSE one_backward(square)
        Promos(tgt, flags) == [i \in 1..4 |-> Move_new(square, tgt, pc, PromotionOptions[i], flags)]
        two_forward == IF stm = White THEN one_forward(fwd) ELSE one_backward(fwd)
        pushes ==
            IF fwd \notin b.occupancies[Both]
            THEN (IF is_on_rank(square, promotion_rank)
                  THEN Promos(fwd, 0)
                  ELSE <<Move_new(square, fwd, pc, NoPromotion, 0)>>)
                 \o (IF is_on_rank(square, initial_rank) /\ two_forward \notin b.occupancies[Both]
                     THEN <<Move_new(square, two_forward, pc, NoPromotion, DOUBLE_PUSH)>>
                     ELSE <<>>)
            ELSE <<>>
        enemy_occupancies == b.occupancies[enemy(stm)]
        pawn_attacks == PAWN_ATTACKS[stm][square]
        attacks == SortedSeq(pawn_attacks \cap enemy_occupancies)
        CaptureTo(tgt) == IF is_on_rank(square, promotion_rank)
                          THEN Promos(tgt, CAPTURE)
                          ELSE <<Move_new(square, tgt, pc, NoPromotion, CAPTURE)>>
        captures == Concat([i \in 1..Len(attacks) |-> CaptureTo(attacks[i])])
        en_passant_attacks == IF b.en_passant # OffBoard
                              THEN pawn_attacks \cap {b.en_passant}
                              ELSE {}
        en_passants == IF en_passant_attacks # {}
                       THEN <<Move_new(square, trailing_zeros(en_passant_attacks), pc,
                                       NoPromotion, EN_PASSANT + CAPTURE)>>
                       ELSE <<>>
    IN IF fwd = OffBoard THEN <<>> ELSE pushes \o captures \o en_passants

generate_pawn_moves(b, board, pc) ==
    LET squares == SortedSeq(board)
    IN Concat([i \in 1..Len(squares) |-> PawnMovesFrom(b, squares[i], pc)])

\* A generator that does not take the mover's own pieces out of the targets.
generate_pre_computed_moves_onto_own(b, pc, board, get_attacks) ==
    LET squares == SortedSeq(board)
        From(square) ==
            LET targets == SortedSeq(get_attacks[square])
            IN [j \in 1..Len(targets) |->
                   Move_new(square, targets[j], pc, NoPromotion,
                            IF targets[j] \in b.occupancies[enemy(b.side_to_move)]
                            THEN CAPTURE ELSE 0)]
    IN Concat([i \in 1..Len(squares) |-> From(squares[i])])

\* get_attacks is the closure's table: square -> attacked squares.
generate_pre_computed_moves(b, pc, board, get_attacks) ==
    LET squares == SortedSeq(board)
        To(square, tgt) == IF tgt \in b.occupancies[enemy(b.side_to_move)]
                           THEN Move_new(square, tgt, pc, NoPromotion, CAPTURE)
                           ELSE Move_new(square, tgt, pc, NoPromotion, 0)
        From(square) ==
            LET targets == SortedSeq(get_attacks[square] \ b.occupancies[b.side_to_move])
            IN [j \in 1..Len(targets) |-> To(square, targets[j])]
    IN Concat([i \in 1..Len(squares) |-> From(squares[i])])

\* A generator that leaves the knights out.
generate_knight_moves_none(b, board, pc) == <<>>

generate_knight_moves(b, board, pc) ==
    generate_pre_computed_moves(b, pc, board, [sq \in board |-> KNIGHT_ATTACKS[sq]])

generate_bishop_moves(b, board, pc) ==
    generate_pre_computed_moves(b, pc, board,
                                [sq \in board |-> get_bishop_attacks(sq, b.occupancies[Both])])

generate_rook_moves(b, board, pc) ==
    generate_pre_computed_moves(b, pc, board,
                                [sq \in board |-> get_rook_attacks(sq, b.occupancies[Both])])

generate_queen_moves(b, board, pc) ==
    generate_pre_computed_moves(b, pc, board,
                                [sq \in board |-> get_queen_attacks(sq, b.occupancies[Both])])

\* A king generator that lets the king castle over an attacked square.
generate_king_moves_over_attacked(b, board, pc) ==
    LET stm == b.side_to_move
        king_side == IF stm = White THEN WHITE_K ELSE BLACK_K
        queen_side == IF stm = White THEN WHITE_Q ELSE BLACK_Q
        king_square == IF stm = White THEN E1 ELSE E8
        kfree == IF stm = White THEN <<F1, G1>> ELSE <<F8, G8>>
        qfree == IF stm = White THEN <<D1, C1, B1>> ELSE <<D8, C8, B8>>
        occ == b.occupancies[Both]
        is_king_attacked == is_square_attacked(b, king_square, enemy(stm))
        castle_k ==
            IF And4(b.castling_rights, king_side) = king_side
               /\ kfree[1] \notin occ /\ kfree[2] \notin occ
               /\ ~is_king_attacked
            THEN <<Move_new(king_square, kfree[2], pc, NoPromotion, CASTLING)>>
            ELSE <<>>
        castle_q ==
            IF And4(b.castling_rights, queen_side) = queen_side
               /\ qfree[1] \notin occ /\ qfree[2] \notin occ /\ qfree[3] \notin occ
               /\ ~is_king_attacked
            THEN <<Move_new(king_square, qfree[2], pc, NoPromotion, CASTLING)>>
            ELSE <<>>
    IN castle_k \o castle_q
       \o generate_pre_computed_moves(b, pc, board, [sq \in board |-> KING_ATTACKS[sq]])

generate_king_moves(b, board, pc) ==
    LET stm == b.side_to_move
        king_side == IF stm = White THEN WHITE_K ELSE BLACK_K
        queen_side == IF stm = White THEN WHITE_Q ELSE BLACK_Q
        king_square == IF stm = White THEN E1 ELSE E8
        kfree == IF stm = White THEN <<F1, G1>> ELSE <<F8, G8>>
        qfree == IF stm = White THEN <<D1, C1, B1>> ELSE <<D8, C8, B8>>
        occ == b.occupancies[Both]
        is_king_attacked == is_square_attacked(b, king_square, enemy(stm))
        castle_k ==
            IF And4(b.castling_rights, king_side) = king_side
               /\ kfree[1] \notin occ /\ kfree[2] \notin occ
               /\ ~is_king_attacked
               /\ ~is_square_attacked(b, kfree[1], enemy(stm))
            THEN <<Move_new(king_square, kfree[2], pc, NoPromotion, CASTLING)>>
            ELSE <<>>
        castle_q ==
            IF And4(b.castling_rights, queen_side) = queen_side
               /\ qfree[1] \notin occ /\ qfree[2] \notin occ /\ qfree[3] \notin occ
               /\ ~is_king_attacked
               /\ ~is_square_attacked(b, qfree[1], enemy(stm))
            THEN <<Move_new(king_square, qfree[2], pc, NoPromotion, CASTLING)>>
            ELSE <<>>
    IN castle_k \o castle_q
       \o generate_pre_computed_moves(b, pc, board, [sq \in board |-> KING_ATTACKS[sq]])

GenerateFor(b, pc) ==
    LET board == b.pieces[pc]
        kind == PieceKind(pc)
    IN IF PieceSide(pc) # b.side_to_move THEN <<>>
       ELSE CASE kind = 0 -> generate_pawn_moves(b, board, pc)
              [] kind = 5 -> generate_king_moves(b, board, pc)
              [] kind = 1 -> generate_knight_moves(b, board, pc)
              [] kind = 2 -> generate_bishop_moves(b, board, pc)
              [] kind = 3 -> generate_rook_moves(b, board, pc)
              [] kind = 4 -> generate_queen_moves(b, board, pc)

\* generate_moves: the buffer contents moves[0 .. move_count).
generate_moves(b) ==
    Concat([i \in 1..12 |-> GenerateFor(b, i - 1)])

(***************************************************************************)
(* make_move.                                                              *)
(***************************************************************************)
AllMoves == "AllMoves"
Captures == "Captures"

Occupancy(boards, range) == UNION {boards[p] : p \in range}

\* The enemy piece found on the target square by the capture scan, or 12.
CapturedPiece(boards, stm, tgt) ==
    LET range == IF stm = White THEN 6..11 ELSE 0..5
        hit == {p \in range : tgt \in boards[p]}
    IN IF hit = {} THEN 12 ELSE Min(hit)

CastlingRookMove(tgt) ==
    CASE tgt = G1 -> <<WhiteRook, H1, F1>>
      [] tgt = C1 -> <<WhiteRook, A1, D1>>
      [] tgt = G8 -> <<BlackRook, H8, F8>>
      [] tgt = C8 -> <<BlackRook, A8, D8>>
      [] OTHER -> <<12, OffBoard, OffBoard>>

set_bit(boards, cond, pc, sq) == IF cond THEN [boards EXCEPT ![pc] = @ \cup {sq}] ELSE boards
clear_bit(boards, cond, pc, sq) == IF cond THEN [boards EXCEPT ![pc] = @ \ {sq}] ELSE boards
\* The key a conditional `position ^= key` toggles: nothing if it is skipped.
KeyIf(cond, key) == IF cond THEN key ELSE ZobristKeyDefault

\* occupancies that leave the black pieces out of the combined board.
Occupancies_both_is_white(boards) ==
    [s \in 0..2 |-> IF s = Black THEN Occupancy(boards, black_pieces_range)
                    ELSE Occupancy(boards, white_pieces_range)]

\* The three occupancy boards rebuilt from the piece boards.
Occupancies(boards) ==
    [s \in 0..2 |-> IF s = White THEN Occupancy(boards, white_pieces_range)
                    ELSE IF s = Black THEN Occupancy(boards, black_pieces_range)
                    ELSE Occupancy(boards, white_pieces_range)
                         \cup Occupancy(boards, black_pieces_range)]

\* A legality test that lets every move through.
LeavesKingAttacked_never(b1) == FALSE

\* The legality test at the end of make_move: is the king of the side that
\* just moved attacked by the side now to move?
LeavesKingAttacked(b1) ==
    LET king == IF b1.side_to_move = White THEN BlackKing ELSE WhiteKing
    IN is_square_attacked(b1, trailing_zeros(b1.pieces[king]), b1.side_to_move)

\* make_move that reports an illegal move without rolling it back.
make_move_verdict_no_rollback(b1, z1, unwrap_fails) ==
    LET king == IF b1.side_to_move = White THEN BlackKing ELSE WhiteKing
        king_square == trailing_zeros(b1.pieces[king])
    IN IF unwrap_fails \/ is_square_attacked_panics(king_square)
       THEN [ok |-> FALSE, panic |-> TRUE, board |-> b1, zpos |-> z1]
       ELSE [ok |-> ~LeavesKingAttacked(b1), panic |-> FALSE, board |-> b1, zpos |-> z1]

\* The end of make_move: b1 and z1 are the board and key after the move.
make_move_verdict(b1, z1, unwrap_fails) ==
    LET king == IF b1.side_to_move = White THEN BlackKing ELSE WhiteKing
        king_square == trailing_zeros(b1.pieces[king])
    IN IF unwrap_fails \/ is_square_attacked_panics(king_square)
       THEN [ok |-> FALSE, panic |-> TRUE, board |-> b1, zpos |-> z1]
       ELSE IF LeavesKingAttacked(b1)
       THEN [ok |-> FALSE, panic |-> FALSE, board |-> undo_move(b1).board,
             zpos |-> undo_move(b1).key]
       ELSE [ok |-> TRUE, panic |-> FALSE, board |-> b1, zpos |-> z1]

\* The piece boards once the moving piece has left source for target.
moved_boards(b, piece_move) ==
    set_bit(clear_bit(b.pieces, TRUE, piece(piece_move), source(piece_move)),
            TRUE, piece(piece_move), target(piece_move))

\* make_move that moves the piece onto the target square and leaves the
\* captured piece there.
make_move_boards_keeps_victim(b, piece_move) ==
    LET stm == b.side_to_move
        tgt == target(piece_move)
        p1 == moved_boards(b, piece_move)
        promoting == is_promoting(promotion(piece_move))
        pawn_side == IF stm = White THEN WhitePawn ELSE BlackPawn
        p3 == set_bit(clear_bit(p1, promoting, pawn_side, tgt), promoting,
                      into_piece(promotion(piece_move), stm), tgt)
        rook == CastlingRookMove(tgt)
    IN set_bit(clear_bit(p3, is_castling(piece_move), rook[1], rook[2]),
               is_castling(piece_move), rook[1], rook[3])

make_move_boards(b, piece_move) ==
    LET src == source(piece_move)
        tgt == target(piece_move)
        pc == piece(piece_move)
        stm == b.side_to_move
        p1 == moved_boards(b, piece_move)
        victim == IF is_capture(piece_move) THEN CapturedPiece(p1, stm, tgt) ELSE 12
        p2 == clear_bit(p1, victim < 12, victim, tgt)
        promoting == is_promoting(promotion(piece_move))
        pawn_side == IF stm = White THEN WhitePawn ELSE BlackPawn
        promoted_piece == into_piece(promotion(piece_move), stm)
        p3 == set_bit(clear_bit(p2, promoting, pawn_side, tgt), promoting, promoted_piece, tgt)
        ep_pawn == IF stm = White THEN BlackPawn ELSE WhitePawn
        ep_square == IF stm = White THEN one_backward(tgt) ELSE one_forward(tgt)
        p4 == clear_bit(p3, is_en_passant(piece_move), ep_pawn, ep_square)
        rook == CastlingRookMove(tgt)
    IN set_bit(clear_bit(p4, is_castling(piece_move), rook[1], rook[2]),
               is_castling(piece_move), rook[1], rook[3])

\* The position key after the move: the keys make_move toggles, in the order
\* it toggles them.
make_move_key(b, zpos, piece_move) ==
    LET src == source(piece_move)
        tgt == target(piece_move)
        pc == piece(piece_move)
        stm == b.side_to_move
        victim == IF is_capture(piece_move)
                  THEN CapturedPiece(moved_boards(b, piece_move), stm, tgt) ELSE 12
        promoting == is_promoting(promotion(piece_move))
        pawn_side == IF stm = White THEN WhitePawn ELSE BlackPawn
        promoted_piece == into_piece(promotion(piece_move), stm)
        ep_pawn == IF stm = White THEN BlackPawn ELSE WhitePawn
        ep_square == IF stm = White THEN one_backward(tgt) ELSE one_forward(tgt)
        rook == CastlingRookMove(tgt)
        rights == And4(And4(b.castling_rights, CASTLING_RIGHTS[src + 1]),
                       CASTLING_RIGHTS[tgt + 1])
    IN XorAll(<<zpos,
                pieces_table[pc][src],
                pieces_table[pc][tgt],
                KeyIf(victim < 12, pieces_table[victim][tgt]),
                KeyIf(promoting, pieces_table[pawn_side][tgt]),
                KeyIf(promoting, pieces_table[promoted_piece][tgt]),
                KeyIf(is_en_passant(piece_move), pieces_table[ep_pawn][ep_square]),
                KeyIf(is_available(b.en_passant), en_passant_keys[b.en_passant]),
                KeyIf(is_double_push(piece_move), en_passant_keys[ep_square]),
                KeyIf(is_castling(piece_move), pieces_table[rook[1]][rook[2]]),
                KeyIf(is_castling(piece_move), pieces_table[rook[1]][rook[3]]),
                castling_rights_keys[b.castling_rights],
                castling_rights_keys[rights],
                side_key>>)

\* The unwrap() and unreachable!() arms of make_move that a move can hit.
make_move_unwrap_fails(b, piece_move) ==
    LET tgt == target(piece_move)
        behind == IF b.side_to_move = White THEN one_backward(tgt) ELSE one_forward(tgt)
    IN \/ is_en_passant(piece_move) /\ behind = OffBoard
       \/ is_double_push(piece_move) /\ behind = OffBoard
       \/ is_castling(piece_move) /\ CastlingRookMove(tgt)[1] = 12

make_move_all(b, zpos, piece_move) ==
    LET tgt == target(piece_move)
        boards == make_move_boards(b, piece_move)
        behind == IF b.side_to_move = White THEN one_backward(tgt) ELSE one_forward(tgt)
        b1 == [snapshot_board(b, zpos) EXCEPT
                  !.pieces = boards,
                  !.occupancies = Occupancies(boards),
                  !.en_passant = IF is_double_push(piece_move) THEN behind ELSE OffBoard,
                  !.castling_rights = And4(And4(b.castling_rights,
                                                CASTLING_RIGHTS[source(piece_move) + 1]),
                                           CASTLING_RIGHTS[tgt + 1]),
                  !.side_to_move = enemy(b.side_to_move)]
    IN make_move_verdict(b1, make_move_key(b, zpos, piece_move),
                         make_move_unwrap_fails(b, piece_move))

make_move(b, zpos, piece_move, move_kind) ==
    IF move_kind = AllMoves
    THEN make_move_all(b, zpos, piece_move)
    ELSE IF is_capture(piece_move)
         THEN make_move_all(b, zpos, piece_move)
         ELSE [ok |-> FALSE, panic |-> FALSE, board |-> b, zpos |-> zpos]

(***************************************************************************)
(* Transposition table.  entries maps a slot index to its TTEntry; a slot  *)
(* never written holds TTEntry::default().                                 *)
(***************************************************************************)
ONE_MB == 1048576
TT_SIZE_MB == 4
TTEntrySize == 16
TT_SIZE_BYTES == ONE_MB * TT_SIZE_MB
TT_ENTRY_COUNT == TT_SIZE_BYTES \div TTEntrySize

Beta == "Beta"
Alpha == "Alpha"
Exact == "Exact"
TTFlags == {Beta, Alpha, Exact}

TTEntryDefault == [key |-> ZobristKeyDefault, score |-> 0, depth |-> 0, flag |-> Beta]

None == [some |-> FALSE]
Some(v) == [some |-> TRUE, value |-> v]

\* key % TT_ENTRY_COUNT: the entry count is a power of two, so the index is
\* the key's bits below it (b < 31 keeps 2 ^ b a machine integer).
TranspositionTable_index(key) == {b \in key : b < 31 /\ 2 ^ b < TT_ENTRY_COUNT}

TranspositionTable_entry(entries, key) ==
    ArrGet(entries, TranspositionTable_index(key), TTEntryDefault)

\* clear that leaves the entries in place.
TranspositionTable_clear_nothing(entries) == entries

TranspositionTable_clear(entries) == <<>>

TTAdjustOnGet(score, ply) ==
    LET s1 == IF score < -MATE_LOWER_BOUND THEN score + ply ELSE score
    IN IF s1 > MATE_LOWER_BOUND THEN s1 - ply ELSE s1

\* get that trusts an entry of any depth.
TranspositionTable_get_any_depth(entries, key, alpha, beta, depth, ply) ==
    LET entry == TranspositionTable_entry(entries, key)
        score == TTAdjustOnGet(entry.score, ply)
    IN IF entry.key # key THEN None
       ELSE IF entry.flag = Exact THEN Some(score)
       ELSE IF entry.flag = Alpha /\ score <= alpha THEN Some(alpha)
       ELSE IF entry.flag = Beta /\ score >= beta THEN Some(beta)
       ELSE None

TranspositionTable_get(entries, key, alpha, beta, depth, ply) ==
    LET entry == TranspositionTable_entry(entries, key)
        score == TTAdjustOnGet(entry.score, ply)
    IN IF entry.key # key THEN None
       ELSE IF entry.depth < depth THEN None
       ELSE IF entry.flag = Exact THEN Some(score)
       ELSE IF entry.flag = Alpha /\ score <= alpha THEN Some(alpha)
       ELSE IF entry.flag = Beta /\ score >= beta THEN Some(beta)
       ELSE None

TTAdjustOnSet(score, ply) ==
    LET s1 == IF score < -MATE_LOWER_BOUND THEN score - ply ELSE score
    IN IF s1 > MATE_LOWER_BOUND THEN s1 + ply ELSE s1

\* set that stores the score as given, without the mate adjustment.
TranspositionTable_set_unadjusted(entries, key, depth, score, flag, ply) ==
    ArrSet(entries, TranspositionTable_index(key),
           [key |-> key, score |-> score, depth |-> depth, flag |-> flag])

TranspositionTable_set(entries, key, depth, score, flag, ply) ==
    ArrSet(entries, TranspositionTable_index(key),
           [key |-> key, score |-> TTAdjustOnSet(score, ply), depth |-> depth, flag |-> flag])

(***************************************************************************)
(* Evaluation and move scoring.                                            *)
(***************************************************************************)
MVV_LVA ==
    <<<<105, 205, 305, 405, 505, 605, 105, 205, 305, 405, 505, 605>>,
      <<104, 204, 304, 404, 504, 604, 104, 204, 304, 404, 504, 604>>,
      <<103, 203, 303, 403, 503, 603, 103, 203, 303, 403, 503, 603>>,
      <<102, 202, 302, 402, 502, 602, 102, 202, 302, 402, 502, 602>>,
      <<101, 201, 301, 401, 501, 601, 101, 201, 301, 401, 501, 601>>,
      <<100, 200, 300, 400, 500, 600, 100, 200, 300, 400, 500, 600>>>>

ENDGAME_SCORE == 518
OPENING_SCORE_THRESHOLD == 6192

MATERIAL_SCORE ==
    <<<<82, 337, 365, 477, 1025, 12000, -82, -337, -365, -477, -1025, -12000>>,
      <<94, 281, 297, 512, 936, 12000, -94, -281, -297, -512, -936, -12000>>>>

TAPERED_PAWN_SCORE ==
    [early |-> <<   0,    0,    0,    0,    0,    0,    0,    0,
                 98,  134,   61,   95,   68,  126,   34,  -11,
                 -6,    7,   26,   31,   65,   56,   25,  -20,
                -14,   13,    6,   21,   23,   12,   17,  -23,
                -27,   -2,   -5,   12,   17,    6,   10,  -25,
                -26,   -4,   -4,  -10,    3,    3,   33,  -12,
                -35,   -1,  -20,  -23,  -15,   24,   38,  -22,
                  0,    0,    0,    0,    0,    0,    0,    0>>,
     late |->  <<   0,    0,    0,    0,    0,    0,    0,    0,
                178,  173,  158,  134,  147,  132,  165,  187,
                 94,  100,   85,   67,   56,   53,   82,   84,
                 32,   24,   13,    5,   -2,    4,   17,   17,
                 13,    9,   -3,   -7,   -7,   -8,    3,   -1,
                  4,    7,   -6,    1,    0,   -5,   -1,   -8,
                 13,    8,    8,   10,   13,    0,    2,   -7,
                  0,    0,    0,    0,    0,    0,    0,    0>>]

TAPERED_KNIGHT_SCORE ==
    [early |-> <<-167,  -89,  -34,  -49,   61,  -97,  -15, -107,
                -73,  -41,   72,   36,   23,   62,    7,  -17,
                -47,   60,   37,   65,   84,  129,   73,   44,
                 -9,   17,   19,   53,   37,   69,   18,   22,
                -13,    4,   16,   13,   28,   19,   21,   -8,
                -23,   -9,   12,   10,   19,   17,   25,  -16,
                -29,  -53,  -12,   -3,   -1,   18,  -14,  -19,
               -105,  -21,  -58,  -33,  -17,  -28,  -19,  -23>>,
     late |->  << -58,  -38,  -13,  -28,  -31,  -27,  -63,  -99,
                -25,   -8,  -25,   -2,   -9,  -25,  -24,  -52,
                -24,  -20,   10,    9,   -1,   -9,  -19,  -41,
                -17,    3,   22,   22,   22,   11,    8,  -18,
                -18,   -6,   16,   25,   16,   17,    4,  -18,
                -23,   -3,   -1,   15,   10,   -3,  -20,  -22,
                -42,  -20,  -10,   -5,   -2,  -20,  -23,  -44,
                -29,  -51,  -23,  -15,  -22,  -18,  -50,  -64>>]

TAPERED_BISHOP_SCORE ==
    [early |-> << -29,    4,  -82,  -37,  -25,  -42,    7,   -8,
                -26,   16,  -18,  -13,   30,   59,   18,  -47,
                -16,   37,   43,   40,   35,   50,   37,   -2,
                 -4,    5,   19,   50,   37,   37,    7,   -2,
                 -6,   13,   13,   26,   34,   12,   10,    4,
                  0,   15,   15,   15,   14,   27,   18,   10,
                  4,   15,   16,    0,    7,   21,   33,    1,
                -33,   -3,  -14,  -21,  -13,  -12,  -39,  -21>>,
     late |->  << -14,  -21,  -11,   -8,   -7,   -9,  -17,  -24,
                 -8,   -4,    7,  -12,   -3,  -13,   -4,  -14,
                  2,   -8,    0,   -1,   -2,    6,    0,    4,
                 -3,    9,   12,    9,   14,   10,    3,    2,
                 -6,    3,   13,   19,    7,   10,   -3,   -9,
                -12,   -3,    8,   10,   13,    3,   -7,  -15,
                -14,  -18,   -7,   -1,    4,   -9,  -15,  -27,
                -23,   -9,  -23,   -5,   -9,  -16,   -5,  -17>>]

TAPERED_ROOK_SCORE ==
    [early |-> <<  32,   42,   32,   51,   63,    9,   31,   43,
                 27,   32,   58,   62,   80,   67,   26,   44,
                 -5,   19,   26,   36,   17,   45,   61,   16,
                -24,  -11,    7,   26,   24,   35,   -8,  -20,
                -36,  -26,  -12,   -1,    9,   -7,    6,  -23,
                -45,  -25,  -16,  -17,    3,    0,   -5,  -33,
                -44,  -16,  -20,   -9,   -1,   11,   -6,  -71,
                -19,  -13,    1,   17,   16,    7,  -37,  -26>>,
     late |->  <<  13,   10,   18,   15,   12,   12,    8,    5,
                 11,   13,   13,   11,   -3,    3,    8,    3,
                  7,    7,    7,    5,    4,   -3,   -5,   -3,
                  4,    3,   13,    1,    2,    1,   -1,    2,
                  3,    5,    8,    4,   -5,   -6,   -8,  -11,
                 -4,    0,   -5,   -1,   -7,  -12,   -8,  -16,
                 -6,   -6,    0,    2,   -9,   -9,  -11,   -3,
                 -9,    2,    3,   -1,   -5,  -13,    4,  -20>>]

TAPERED_QUEEN_SCORE ==
    [early |-> << -28,    0,   29,   12,   59,   44,   43,   45,
                -24,  -39,   -5,    1,  -16,   57,   28,   54,
                -13,  -17,    7,    8,   29,   56,   47,   57,
                -27,  -27,  -16,  -16,   -1,   17,   -2,    1,
                 -9,  -26,   -9,  -10,   -2,   -4,    3,   -3,
                -14,    2,  -11,   -2,   -5,    2,   14,    5,
                -35,   -8,   11,    2,    8,   15,   -3,    1,
                 -1,  -18,   -9,   10,  -15,  -25,  -31,  -50>>,
     late |->  <<  -9,   22,   22,   27,   27,   19,   10,   20,
                -17,   20,   32,   41,   58,   25,   30,    0,
                -20,    6,    9,   49,   47,   35,   19,    9,
                  3,   22,   24,   45,   57,   40,   57,   36,
                -18,   28,   19,   47,   31,   34,   39,   23,
                -16,  -27,   15,    6,    9,   17,   10,    5,
                -22,  -23,  -30,  -16,  -16,  -23,  -36,  -32,
                -33,  -28,  -22,  -43,   -5,  -32,  -20,  -41>>]

TAPERED_KING_SCORE ==
    [early |-> << -65,   23,   16,  -15,  -56,  -34,    2,   13,
                 29,   -1,  -20,   -7,   -8,   -4,  -38,  -29,
                 -9,   24,    2,  -16,  -20,    6,   22,  -22,
                -17,  -20,  -12,  -27,  -30,  -25,  -14,  -36,
                -49,   -1,  -27,  -39,  -46,  -44,  -33,  -51,
                -14,  -14,  -22,  -46,  -44,  -30,  -15,  -27,
                  1,    7,   -8,  -64,  -43,  -16,    9,    8,
                -15,   36,   12,  -54,    8,  -28,   24,   14>>,
     late |->  << -74,  -35,  -18,  -18,  -11,   15,    4,  -17,
                -12,   17,   14,   17,   17,   38,   23,   11,
                 10,   17,   23,   15,   20,   45,   44,   13,
                 -8,   22,   24,   27,   26,   33,   26,    3,
                -18,   -4,   21,   24,   27,   23,    9,  -11,
                -19,   -3,   11,   21,   23,   16,    7,   -9,
                -27,  -11,    4,   13,   14,    4,   -5,  -17,
                -53,  -34,  -21,  -11,  -28,  -14,  -24, -430>>]

RECURSIVE SumSeq(_)
SumSeq(s) == IF s = <<>> THEN 0 ELSE Head(s) + SumSeq(Tail(s))

get_game_phase_score(b) ==
    SumSeq([i \in 1..4 |-> Cardinality(b.pieces[i]) * MATERIAL_SCORE[1][i + 1]])
    + SumSeq([i \in 1..4 |-> Cardinality(b.pieces[6 + i]) * (-MATERIAL_SCORE[1][6 + i + 1])])

\* GamePhase::from_score: Opening above the opening threshold, Endgame below
\* the endgame score, Midgame between.
GamePhase_from_score(game_phase_score) ==
    IF game_phase_score > OPENING_SCORE_THRESHOLD THEN "Opening"
    ELSE IF game_phase_score < ENDGAME_SCORE THEN "Endgame"
    ELSE "Midgame"

interpolate_score(game_phase, opening_score, endgame_score, game_phase_score) ==
    CASE game_phase = "Opening" -> opening_score
      [] game_phase = "Endgame" -> endgame_score
      [] game_phase = "Midgame" ->
            TruncDiv(opening_score * game_phase_score
                     + endgame_score * (OPENING_SCORE_THRESHOLD - game_phase_score),
                     OPENING_SCORE_THRESHOLD)

PositionalScoreOf(pc) ==
    LET kind == PieceKind(pc)
    IN CASE kind = 0 -> TAPERED_PAWN_SCORE
         [] kind = 1 -> TAPERED_KNIGHT_SCORE
         [] kind = 2 -> TAPERED_BISHOP_SCORE
         [] kind = 3 -> TAPERED_ROOK_SCORE
         [] kind = 4 -> TAPERED_QUEEN_SCORE
         [] kind = 5 -> TAPERED_KING_SCORE

\* What one piece on one square adds to <<score_opening, score_endgame>>.
PieceScore(pc, square) ==
    LET sign == IF PieceSide(pc) = White THEN 1 ELSE -1
        square_idx == IF PieceSide(pc) = White THEN square ELSE mirror(square)
    IN <<MATERIAL_SCORE[1][pc + 1] + sign * PositionalScoreOf(pc).early[square_idx + 1],
         MATERIAL_SCORE[2][pc + 1] + sign * PositionalScoreOf(pc).late[square_idx + 1]>>

evaluate_position(b) ==
    LET game_phase_score == get_game_phase_score(b)
        placed == Concat([i \in 1..12 |->
                            LET squares == SortedSeq(b.pieces[i - 1])
                            IN [j \in 1..Len(squares) |-> PieceScore(i - 1, squares[j])]])
        score == interpolate_score(GamePhase_from_score(game_phase_score),
                                   SumSeq([i \in 1..Len(placed) |-> placed[i][1]]),
                                   SumSeq([i \in 1..Len(placed) |-> placed[i][2]]),
                                   game_phase_score)
    IN IF b.side_to_move = White THEN score ELSE -score

PV_MOVE_SCORE == 20000
MVV_LVA_BONUS == 10000
FIRST_KILLER_MOVE == 9000
SECOND_KILLER_MOVE == 8000

\* Fixed-size tables of SearchState, kept as the entries written so far.
PvTableAt(srch, row, col) == ArrGet(srch.pv_table, <<row, col>>, MoveDefault)
PvLengthAt(srch, ply) == ArrGet(srch.pv_length, ply, 0)
KillerAt(srch, slot, ply) == ArrGet(srch.killer_moves, <<slot, ply>>, MoveDefault)
HistoryAt(srch, pc, tgt) == ArrGet(srch.history_moves, <<pc, tgt>>, 0)

\* score_move returns the score; it also clears score_pv when it meets the
\* PV move (see sort_moves).
IsPvMove(b, srch, piece_move) ==
    srch.score_pv /\ PvTableAt(srch, 0, b.ply) = piece_move

score_move(b, srch, piece_move) ==
    IF IsPvMove(b, srch, piece_move) THEN PV_MOVE_SCORE
    ELSE IF is_capture(piece_move)
    THEN LET found == CapturedPiece(b.pieces, b.side_to_move, target(piece_move))
             victim == IF found = 12 THEN WhitePawn ELSE found
         IN MVV_LVA[PieceKind(piece(piece_move)) + 1][victim + 1] + MVV_LVA_BONUS
    ELSE IF KillerAt(srch, 0, b.ply) = piece_move THEN FIRST_KILLER_MOVE
    ELSE IF KillerAt(srch, 1, b.ply) = piece_move THEN SECOND_KILLER_MOVE
    ELSE HistoryAt(srch, piece(piece_move), target(piece_move))

\* The scores sort_moves gives the moves, in buffer order: once the PV move
\* has been scored, score_pv is off for the moves after it.
ScoreAll(b, srch, moves) ==
    [i \in 1..Len(moves) |->
        score_move(b, [srch EXCEPT !.score_pv =
                          @ /\ \A j \in 1..(i - 1) : ~IsPvMove(b, srch, moves[j])],
                   moves[i])]

\* sort_by_key(Reverse(score)) is stable: among equal scores the buffer
\* order is kept. Returns the indices of the moves in their sorted order:
\* the k-th is the one with k - 1 indices before it.
StableOrder(scores) ==
    [k \in 1..Len(scores) |->
        CHOOSE i \in 1..Len(scores) :
            Cardinality({j \in 1..Len(scores) :
                            scores[j] > scores[i] \/ (scores[j] = scores[i] /\ j < i)})
            = k - 1]

\* The buffer written back in the sorted order.
sorted_moves(b, srch, order) ==
    [srch EXCEPT !.moves = [i \in 1..Len(order) |-> srch.moves[order[i]]],
                 !.score_pv = @ /\ \A i \in 1..Len(srch.moves) :
                                      PvTableAt(srch, 0, b.ply) # srch.moves[i]]

\* The scores, then the order, then the buffer: each is bound once computed.
sort_moves(b, srch) ==
    CHOOSE sorted \in
        {sorted_moves(b, srch, order) :
            order \in {StableOrder(scores) : scores \in {ScoreAll(b, srch, srch.moves)}}} :
        TRUE

enable_pv_scoring(srch, game_ply) ==
    LET found == \E i \in 1..Len(srch.moves) : PvTableAt(srch, 0, game_ply) = srch.moves[i]
    IN [srch EXCEPT !.follow_pv = found, !.score_pv = IF found THEN TRUE ELSE @]

(***************************************************************************)
(* Positions handed to load_position.  parse_fen_string is not modelled:   *)
(* a position is the FenParts record it produces.                          *)
(***************************************************************************)
SquareAt(file, rank) == (8 - rank) * 8 + file

get_occupancy(positions, side) ==
    IF side = White THEN Occupancy(positions, white_pieces_range)
    ELSE IF side = Black THEN Occupancy(positions, black_pieces_range)
    ELSE Occupancy(positions, PieceIds)

\* placed is a set of <<piece, square>> pairs.
FenParts(placed, stm, ep, rights) ==
    LET positions == [p \in PieceIds |-> {x[2] : x \in {y \in placed : y[1] = p}}]
    IN [positions |-> positions,
        white_occupancy |-> get_occupancy(positions, White),
        black_occupancy |-> get_occupancy(positions, Black),
        both_occupancy |-> get_occupancy(positions, Both),
        side_to_move |-> stm,
        en_passant |-> ep,
        castling_rights |-> rights]

\* 4k2r/8/8/8/8/8/7P/R3K3 w Qk - : castling on both wings, rook moves that drop rights
PosCastle ==
    FenParts({<<WhiteKing, E1>>, <<WhiteRook, A1>>, <<WhitePawn, SquareAt(7, 2)>>,
              <<BlackKing, E8>>, <<BlackRook, H8>>},
             White, OffBoard, WHITE_Q + BLACK_K)

\* 4k3/3p4/8/4P3/8/8/8/4K3 b - - : a double push answered by an en passant capture
PosEnPassant ==
    FenParts({<<WhiteKing, E1>>, <<WhitePawn, SquareAt(4, 5)>>,
              <<BlackKing, E8>>, <<BlackPawn, SquareAt(3, 7)>>},
             Black, OffBoard, 0)

\* r6k/1P6/8/8/8/8/8/2K5 w - - : promotions by push and by capture
PosPromotion ==
    FenParts({<<WhiteKing, C1>>, <<WhitePawn, SquareAt(1, 7)>>,
              <<BlackKing, H8>>, <<BlackRook, A8>>},
             White, OffBoard, 0)

\* 7k/8/8/8/1b6/8/3N4/4K3 w - - : a pinned knight, every knight move is illegal
PosPinned ==
    FenParts({<<WhiteKing, E1>>, <<WhiteKnight, SquareAt(3, 2)>>,
              <<BlackKing, H8>>, <<BlackBishop, SquareAt(1, 4)>>},
             White, OffBoard, 0)

\* 4k3/8/3N4/4P3/8/8/8/4K3 w - d6 : a FEN the parser accepts whose en passant
\* square holds a white knight
PosEnPassantBlocked ==
    FenParts({<<WhiteKing, E1>>, <<WhitePawn, SquareAt(4, 5)>>,
              <<WhiteKnight, SquareAt(3, 6)>>, <<BlackKing, E8>>},
             White, SquareAt(3, 6), 0)

\* 4k3/8/8/8/8/8/8/3K4 w K - : a FEN the parser accepts that grants white the
\* king-side right with the king on d1 and no rook on h1
PosCastleNoKing ==
    FenParts({<<WhiteKing, D1>>, <<BlackKing, E8>>}, White, OffBoard, WHITE_K)

\* 4kr2/8/8/8/8/8/8/4K2R w K - : the black rook covers f1, the square the
\* white king would pass over
PosCastleThrough ==
    FenParts({<<WhiteKing, E1>>, <<WhiteRook, H1>>, <<BlackKing, E8>>,
              <<BlackRook, F8>>},
             White, OffBoard, WHITE_K)

\* K7/2k5/8/8/8/8/7p/8 w - -
PosPromotionRace ==
    FenParts({<<WhiteKing, A8>>, <<BlackKing, SquareAt(2, 7)>>, <<BlackPawn, SquareAt(7, 2)>>},
             White, OffBoard, 0)

\* knNr4/1p1P4/8/1P6/7p/7p/7P/6K1 w - -: the knight checks from b6 and c8 in
\* turn, and taking it on c8 loses the rook to the pawn.
PosPerpetualCheck ==
    FenParts({<<WhiteKing, SquareAt(6, 1)>>, <<WhiteKnight, SquareAt(2, 8)>>,
              <<WhitePawn, SquareAt(1, 5)>>, <<WhitePawn, SquareAt(3, 7)>>,
              <<WhitePawn, SquareAt(7, 2)>>, <<BlackKing, A8>>,
              <<BlackKnight, SquareAt(1, 8)>>, <<BlackRook, SquareAt(3, 8)>>,
              <<BlackPawn, SquareAt(1, 7)>>, <<BlackPawn, SquareAt(7, 3)>>,
              <<BlackPawn, SquareAt(7, 4)>>}, White, OffBoard, 0)

\* k7/P7/KP6/7n/6P1/8/8/8 w - -
PosMateOrCapture ==
    FenParts({<<WhiteKing, SquareAt(0, 6)>>, <<WhitePawn, SquareAt(0, 7)>>,
              <<WhitePawn, SquareAt(1, 6)>>, <<WhitePawn, SquareAt(6, 4)>>,
              <<BlackKing, A8>>, <<BlackKnight, SquareAt(7, 5)>>},
             White, OffBoard, 0)

MovePositions == {PosCastle, PosEnPassant, PosPromotion, PosPinned,
                  PosEnPassantBlocked, PosCastleNoKing, PosCastleThrough}

\* 8/8/8/8/8/4k3/4p3/4K3 w - - : white is stalemated
PosStalemate ==
    FenParts({<<WhiteKing, E1>>, <<BlackKing, SquareAt(4, 3)>>, <<BlackPawn, SquareAt(4, 2)>>},
             White, OffBoard, 0)

\* k7/P7/KP6/8/8/8/8/8 w - - : b6b7 is mate
PosMateInOne ==
    FenParts({<<WhiteKing, SquareAt(0, 6)>>, <<WhitePawn, SquareAt(0, 7)>>,
              <<WhitePawn, SquareAt(1, 6)>>, <<BlackKing, A8>>},
             White, OffBoard, 0)

\* 4k3/8/8/8/8/8/4K3/8 w - - : bare kings
PosKings ==
    FenParts({<<WhiteKing, SquareAt(4, 2)>>, <<BlackKing, E8>>}, White, OffBoard, 0)

\* 4k3/8/8/8/8/8/8/R3K3 w Q - : white may castle long
PosCastleLong ==
    FenParts({<<WhiteKing, E1>>, <<WhiteRook, A1>>, <<BlackKing, E8>>}, White, OffBoard, WHITE_Q)

\* 4k3/1b6/8/8/8/8/4P3/7K w - - : white is in check on the long diagonal and
\* can answer with the double push e2e4
PosBlockCheck ==
    FenParts({<<WhiteKing, H1>>, <<WhitePawn, SquareAt(4, 2)>>,
              <<BlackKing, E8>>, <<BlackBishop, SquareAt(1, 7)>>},
             White, OffBoard, 0)

(***************************************************************************)
(* State.                                                                  *)
(*   board    BoardState                                                   *)
(*   zobrist  Zobrist.position (the key tables are constants)              *)
(*   search   SearchState                                                  *)
(*   tt       TranspositionTable.entries, index -> entry, default absent   *)
(*   tm       the TimeManager of the running search                        *)
(*   frames   the call stack of negamax / quiescence activations           *)
(*   phase    where the engine is: idle, searching, panicked               *)
(*   out      the lines printed by search_position                         *)
(*   g        history of the run kept for stating properties               *)
(***************************************************************************)
VARIABLES board, zobrist, search, tt, tm, frames, phase, out, g

vars == <<board, zobrist, search, tt, tm, frames, phase, out, g>>

SearchState_new ==
    [nodes |-> 0, score_pv |-> FALSE, follow_pv |-> FALSE,
     killer_moves |-> <<>>, history_moves |-> <<>>,
     pv_table |-> <<>>, pv_length |-> <<>>,
     moves |-> <<>>]

\* The fields of the position that make_move changes and undo_move restores.
Visible(b, zpos) ==
    [pieces |-> b.pieces, occupancies |-> b.occupancies, side_to_move |-> b.side_to_move,
     en_passant |-> b.en_passant, castling_rights |-> b.castling_rights,
     fifty_move_counter |-> b.fifty_move_counter, key |-> zpos]

NoCall == [op |-> "none"]

\* g: loaded/fen/replayed say what was loaded, game the keys of the positions
\* of the replayed game before each of its moves, path the keys of the
\* positions on the search path above the current node, stack and last the
\* calls made, searched/stopped/completed the course of the search, held the
\* head of the PV when the last iteration that ended inside its window ended.
Init ==
    /\ board = BoardState_new
    /\ zobrist = ZobristKeyDefault
    /\ search = SearchState_new
    /\ tt = <<>>
    /\ tm = [control |-> "none"]
    /\ frames = <<>>
    /\ phase = "idle"
    /\ out = <<>>
    /\ g = [loaded |-> FALSE, fen |-> <<>>, replayed |-> <<>>, game |-> <<>>,
            path |-> <<>>, stack |-> <<>>, last |-> NoCall,
            searched |-> FALSE, stopped |-> FALSE,
            completed |-> [depth |-> 0, best |-> MoveDefault],
            held |-> MoveDefault, seen |-> {},
            root |-> [visible |-> <<>>, ply |-> 0, repetition_index |-> 0, snapshots |-> 0]]

load_position(b, fen_parts) ==
    [b EXCEPT !.pieces = fen_parts.positions,
              !.occupancies = [s \in 0..2 |->
                                 IF s = White THEN fen_parts.white_occupancy
                                 ELSE IF s = Black THEN fen_parts.black_occupancy
                                 ELSE fen_parts.both_occupancy],
              !.en_passant = fen_parts.en_passant,
              !.side_to_move = fen_parts.side_to_move,
              !.castling_rights = fen_parts.castling_rights]

LoadPosition(fen_parts) ==
    /\ phase = "idle"
    /\ ~g.loaded
    /\ board' = load_position(board, fen_parts)
    /\ zobrist' = hash_position(fen_parts.positions, fen_parts.side_to_move,
                                fen_parts.en_passant, fen_parts.castling_rights)
    /\ g' = [g EXCEPT !.loaded = TRUE, !.fen = fen_parts, !.game = <<>>,
                      !.last = [op |-> "load"]]
    /\ UNCHANGED <<search, tt, tm, frames, phase, out>>

(***************************************************************************)
(* SpecMoves: the make/undo interface driven as benches/perft.rs drives    *)
(* it: load a position, then generate, make a generated move, undo.        *)
(***************************************************************************)
PerftMakeResult(r, piece_move, move_kind) ==
    /\ board' = r.board
    /\ zobrist' = r.zpos
    /\ phase' = IF r.panic THEN "panicked" ELSE "idle"
    /\ g' = [g EXCEPT !.last = [op |-> "make", ok |-> r.ok, move_kind |-> move_kind,
                                piece_move |-> piece_move,
                                before |-> Visible(board, zobrist),
                                depth_before |-> Len(board.snapshots)],
                      !.stack = IF r.ok THEN Append(@, Visible(board, zobrist)) ELSE @]

PerftMake(piece_move, move_kind) ==
    /\ phase = "idle"
    /\ g.loaded
    /\ Len(board.snapshots) < MaxSnapshots
    /\ PerftMakeResult(make_move(board, zobrist, piece_move, move_kind), piece_move, move_kind)
    /\ search' = [search EXCEPT !.moves = generate_moves(board)]
    /\ UNCHANGED <<tt, tm, frames, out>>

PerftUndo ==
    /\ phase = "idle"
    /\ g.loaded
    /\ Len(g.stack) > 0
    /\ Len(board.snapshots) > 0
    /\ LET u == undo_move(board)
       IN /\ board' = u.board
          /\ zobrist' = u.key
    /\ g' = [g EXCEPT !.last = [op |-> "undo", expected |-> g.stack[Len(g.stack)],
                                base |-> g.stack[1],
                                run |-> IF g.last.op = "undo" THEN g.last.run + 1 ELSE 1],
                      !.stack = SubSeq(@, 1, Len(@) - 1)]
    /\ UNCHANGED <<search, tt, tm, frames, phase, out>>

NextMoves ==
    \/ \E fen_parts \in MovePositions : LoadPosition(fen_parts)
    \/ \E i \in 1..Len(generate_moves(board)) : \E move_kind \in {AllMoves, Captures} :
          PerftMake(generate_moves(board)[i], move_kind)
    \/ PerftUndo

SpecMoves == Init /\ [][NextMoves]_vars

(***************************************************************************)
(* Properties of make_move and undo_move, checked under SpecMoves.         *)
(***************************************************************************)

\* Chess rules, stated from the attacker's side: the squares that the piece
\* `attacker` attacks from the square `from` when `occ` is the set of occupied
\* squares.
PieceAttacks(attacker, from, occ) ==
    LET kind == PieceKind(attacker)
    IN CASE kind = 0 -> compute_pawn_attacks(PieceSide(attacker), from)
         [] kind = 1 -> compute_knight_attacks(from)
         [] kind = 2 -> compute_bishop_attacks(from, occ)
         [] kind = 3 -> compute_rook_attacks(from, occ)
         [] kind = 4 -> compute_bishop_attacks(from, occ) \cup compute_rook_attacks(from, occ)
         [] kind = 5 -> compute_king_attacks(from)

AttackedBy(boards, sq, side) ==
    \E attacker \in PieceIds : \E from \in boards[attacker] :
        /\ PieceSide(attacker) = side
        /\ sq \in PieceAttacks(attacker, from, UNION {boards[q] : q \in PieceIds})

OneKingEach(boards) ==
    Cardinality(boards[WhiteKing]) = 1 /\ Cardinality(boards[BlackKing]) = 1

\* C1: each undo_move restores pieces, occupancies, side to move, en passant,
\* castling rights, fifty-move counter and the Zobrist key to what they were
\* just before the matching successful make_move; once every successful
\* make_move has been undone in LIFO order, the state is the one that held
\* before the first make_move.
C1_MakeUndoRestores ==
    g.last.op = "undo" =>
        /\ Visible(board, zobrist) = g.last.expected
        /\ (g.stack = <<>> => Visible(board, zobrist) = g.last.base)

\* Two moves were made and both were undone, newest first.
C1_Witness ==
    /\ g.last.op = "undo"
    /\ g.last.run = 2
    /\ g.stack = <<>>
    /\ Len(board.snapshots) = 0

C4_FailedMakeChangesNothing ==
    (g.last.op = "make" /\ ~g.last.ok /\ phase # "panicked") =>
        /\ Visible(board, zobrist) = g.last.before
        /\ Len(board.snapshots) = g.last.depth_before

\* An AllMoves make_move was rejected because it left the mover's king attacked.
C4_Witness ==
    /\ g.last.op = "make"
    /\ ~g.last.ok
    /\ g.last.move_kind = AllMoves
    /\ phase = "idle"

\* C11: once a position is loaded - after load_position, after every
\* make_move whether it returned true or false, and after every undo_move -
\* occupancies[White] is the union of the six white piece boards,
\* occupancies[Black] the union of the six black piece boards and
\* occupancies[Both] the union of the two.
C11_OccupanciesMatchPieces ==
    g.loaded =>
        /\ board.occupancies[White] = UNION {board.pieces[p] : p \in 0..5}
        /\ board.occupancies[Black] = UNION {board.pieces[p] : p \in 6..11}
        /\ board.occupancies[Both] = board.occupancies[White] \cup board.occupancies[Black]

\* A capture was made: a black piece left the board and the occupancies
\* follow.
C11_Witness ==
    /\ g.last.op = "make"
    /\ g.last.ok
    /\ is_capture(g.last.piece_move)
    /\ Cardinality(board.occupancies[Black])
          < Cardinality(g.last.before.occupancies[Black])

\* A castling right of a loaded position is held only with the king and
\* the rook of that wing on their home squares.
CastlingRightsAtHome(fen_parts) ==
    \A w \in {<<WHITE_K, WhiteKing, E1, WhiteRook, H1>>, <<WHITE_Q, WhiteKing, E1, WhiteRook, A1>>,
              <<BLACK_K, BlackKing, E8, BlackRook, H8>>, <<BLACK_Q, BlackKing, E8, BlackRook, A8>>} :
        And4(fen_parts.castling_rights, w[1]) = w[1] =>
            /\ w[3] \in fen_parts.positions[w[2]]
            /\ w[5] \in fen_parts.positions[w[4]]

\* The en passant square of a loaded position, if it has one, is empty and
\* the pawn that passed over it stands right behind it.
EnPassantBehindPawn(fen_parts) ==
    fen_parts.en_passant # OffBoard =>
        /\ fen_parts.en_passant \notin fen_parts.both_occupancy
        /\ IF fen_parts.side_to_move = White
           THEN one_backward(fen_parts.en_passant) \in fen_parts.positions[BlackPawn]
           ELSE one_forward(fen_parts.en_passant) \in fen_parts.positions[WhitePawn]

PairwiseDisjoint(boards) ==
    \A p \in PieceIds : \A q \in PieceIds : p # q => boards[p] \cap boards[q] = {}

\* The en passant square of a loaded position, if it has one, holds no piece.
EnPassantSquareEmpty(fen_parts) ==
    fen_parts.en_passant # OffBoard => fen_parts.en_passant \notin fen_parts.both_occupancy

\* C12 as stated: in every position reached by make_move and undo_move of
\* generated moves from a loaded position whose twelve piece boards are
\* pairwise disjoint, the twelve piece boards are pairwise disjoint.
C12_PiecesStayDisjoint ==
    (g.loaded /\ PairwiseDisjoint(g.fen.positions)) => PairwiseDisjoint(board.pieces)

\* C12, amended: the same, from a loaded position whose piece boards are
\* pairwise disjoint and whose en passant square, if it has one, is empty:
\* captures, en passant captures, promotions, capture-promotions and
\* castling never leave two pieces on one square.
C12_PiecesStayDisjointFromFreeEnPassant ==
    (g.loaded /\ PairwiseDisjoint(g.fen.positions) /\ EnPassantSquareEmpty(g.fen))
        => PairwiseDisjoint(board.pieces)

\* A pawn captured a rook and was promoted in the same move.
C12_Witness ==
    /\ g.last.op = "make"
    /\ g.last.ok
    /\ PairwiseDisjoint(g.fen.positions)
    /\ EnPassantSquareEmpty(g.fen)
    /\ is_capture(g.last.piece_move)
    /\ is_promoting(promotion(g.last.piece_move))
    /\ board.pieces[BlackRook] = {}

\* What C14 says of one generated move m in the position b.
GeneratedMoveSound(b, m) ==
    /\ source(m) \in 0..63
    /\ target(m) \in 0..63
    /\ source(m) # target(m)
    /\ piece(m) \in PieceIds
    /\ source(m) \in b.pieces[piece(m)]
    /\ PieceSide(piece(m)) = b.side_to_move
    /\ \A p \in PieceIds : PieceSide(p) = b.side_to_move => target(m) \notin b.pieces[p]

\* C14 as stated: every move that generate_moves writes into the move
\* buffer has source and target squares in 0..63, source different from
\* target, a source square that holds the encoded piece, a piece of the
\* side to move, and a target square that holds no piece of the side to move.
C14_GeneratedMovesSound ==
    g.loaded =>
        \A i \in 1..Len(generate_moves(board)) :
            GeneratedMoveSound(board, generate_moves(board)[i])

\* C14, amended: the same, in the positions reached from a loaded position
\* that holds a castling right only with the king and the rook of that wing
\* on their home squares and whose en passant square, if it has one, is
\* empty.
C14_GeneratedMovesSoundFromWellFormed ==
    (g.loaded /\ CastlingRightsAtHome(g.fen) /\ EnPassantSquareEmpty(g.fen)) =>
        \A i \in 1..Len(generate_moves(board)) :
            GeneratedMoveSound(board, generate_moves(board)[i])

\* After a double push the generator offers the en passant capture.
C14_Witness ==
    /\ g.loaded
    /\ CastlingRightsAtHome(g.fen)
    /\ EnPassantSquareEmpty(g.fen)
    /\ g.last.op = "make"
    /\ is_double_push(g.last.piece_move)
    /\ \E i \in 1..Len(generate_moves(board)) :
          /\ is_en_passant(generate_moves(board)[i])
          /\ GeneratedMoveSound(board, generate_moves(board)[i])

\* The two wings of a side: the right, the king's home square, the squares
\* between the king and the rook, the square the king passes over and the
\* square it lands on.
Wings(side) ==
    IF side = White
    THEN {[right |-> WHITE_K, king |-> E1, between |-> {F1, G1}, over |-> F1, to |-> G1],
          [right |-> WHITE_Q, king |-> E1, between |-> {D1, C1, B1}, over |-> D1, to |-> C1]}
    ELSE {[right |-> BLACK_K, king |-> E8, between |-> {F8, G8}, over |-> F8, to |-> G8],
          [right |-> BLACK_Q, king |-> E8, between |-> {D8, C8, B8}, over |-> D8, to |-> C8]}

CastlingEmitted(b, wing) ==
    \E i \in 1..Len(generate_moves(b)) :
        /\ is_castling(generate_moves(b)[i])
        /\ source(generate_moves(b)[i]) = wing.king
        /\ target(generate_moves(b)[i]) = wing.to

MayCastle(b, wing) ==
    /\ And4(b.castling_rights, wing.right) = wing.right
    /\ wing.between \cap UNION {b.pieces[p] : p \in PieceIds} = {}
    /\ ~AttackedBy(b.pieces, wing.king, enemy(b.side_to_move))
    /\ ~AttackedBy(b.pieces, wing.over, enemy(b.side_to_move))

TTKeyZero == {}
TTKeySameSlot == {18}
TTKeyOtherSlot == {0, 5, 40}
TTScores == {-INFINITY, -MATE_LOWER_BOUND - 1, -MATE_LOWER_BOUND, 0,
             MATE_LOWER_BOUND, MATE_LOWER_BOUND + 1, INFINITY}
TTDepths == {1, 2}
TTPlies == {0, 1, MAX_PLY}
TTWindows == {<<-INFINITY, INFINITY>>, <<0, 1>>, <<-1, 0>>,
              <<MATE_LOWER_BOUND - 1, MATE_LOWER_BOUND>>}

TTStore(key, depth, score, flag, ply) ==
    /\ phase = "idle"
    /\ ~g.loaded
    /\ g.last.op \in {"none", "set"}
    /\ tt' = TranspositionTable_set(tt, key, depth, score, flag, ply)
    /\ g' = [g EXCEPT !.last =
                [op |-> "set", key |-> key, depth |-> depth, score |-> score,
                 flag |-> flag, ply |-> ply,
                 replaced_other |-> LET old == TranspositionTable_entry(tt, key)
                                    IN old # TTEntryDefault /\ old.key # key]]
    /\ UNCHANGED <<board, zobrist, search, tm, frames, phase, out>>

TTProbe(key, alpha, beta, depth, ply) ==
    /\ phase = "idle"
    /\ ~g.loaded
    /\ g.last.op \in {"none", "set"}
    /\ g' = [g EXCEPT !.last =
                [op |-> "get", key |-> key, alpha |-> alpha, beta |-> beta,
                 depth |-> depth, ply |-> ply,
                 result |-> TranspositionTable_get(tt, key, alpha, beta, depth, ply),
                 prev |-> IF g.last.op = "set" THEN g.last ELSE NoCall]]
    /\ UNCHANGED <<board, zobrist, search, tt, tm, frames, phase, out>>

NextTT ==
    \/ \E key \in {TTKeyZero, TTKeySameSlot}, depth \in TTDepths, score \in TTScores,
          flag \in TTFlags, ply \in TTPlies :
          TTStore(key, depth, score, flag, ply)
    \/ TTStore(TTKeyOtherSlot, 1, 0, Exact, 0)
    \/ \E key \in {TTKeyZero, TTKeySameSlot, TTKeyOtherSlot}, w \in TTWindows,
          depth \in TTDepths, ply \in TTPlies :
          TTProbe(key, w[1], w[2], depth, ply)

SpecTT == Init /\ [][NextTT]_vars

\* The slot a key selects: slot number key mod N, N the number of entries.
SlotOf(key) == ArrGet(tt, {b \in key : b < 18}, TTEntryDefault)

\* A stored score moved toward the root by ply when it is a mate score.
TowardRoot(score, ply) ==
    IF score > MATE_LOWER_BOUND THEN score - ply
    ELSE IF score < -MATE_LOWER_BOUND THEN score + ply
    ELSE score

\* C9: get returns a value only if the slot at index key mod N holds the
\* same key and a stored depth >= the requested depth; then, with s the
\* stored score moved toward the root by ply when it is a mate score, the
\* result is s for Exact, alpha for Alpha with s <= alpha, beta for Beta
\* with s >= beta, and a miss otherwise.
C9_GetContract ==
    g.last.op = "get" =>
        LET e == SlotOf(g.last.key)
            s == TowardRoot(e.score, g.last.ply)
            usable == e.key = g.last.key /\ e.depth >= g.last.depth
        IN /\ g.last.result.some => usable
           /\ usable =>
                g.last.result =
                    CASE e.flag = Exact -> Some(s)
                      [] e.flag = Alpha /\ s <= g.last.alpha -> Some(g.last.alpha)
                      [] e.flag = Beta /\ s >= g.last.beta -> Some(g.last.beta)
                      [] OTHER -> None

\* A probe for a deeper result than the one stored under the same key missed.
C9_Witness ==
    /\ g.last.op = "get"
    /\ SlotOf(g.last.key).key = g.last.key
    /\ SlotOf(g.last.key).depth = 1
    /\ SlotOf(g.last.key).flag = Exact
    /\ g.last.depth = 2
    /\ g.last.result = None

\* C10: set(key, d, s, Exact, p) with p in 0..MAX_PLY and s in
\* [-INFINITY, INFINITY], immediately followed by get(key, alpha, beta, d', p)
\* with d' <= d, returns exactly s for every alpha and beta; and right after
\* a set the slot holds the new key, depth and flag whatever it held before.
C10_SetThenGet ==
    /\ g.last.op = "set" =>
          /\ SlotOf(g.last.key).key = g.last.key
          /\ SlotOf(g.last.key).depth = g.last.depth
          /\ SlotOf(g.last.key).flag = g.last.flag
    /\ (/\ g.last.op = "get"
        /\ g.last.prev.op = "set"
        /\ g.last.prev.key = g.last.key
        /\ g.last.prev.flag = Exact
        /\ g.last.prev.ply = g.last.ply
        /\ g.last.ply \in 0..MAX_PLY
        /\ g.last.prev.score >= -INFINITY /\ g.last.prev.score <= INFINITY
        /\ g.last.depth <= g.last.prev.depth)
       => g.last.result = Some(g.last.prev.score)

\* A mate score stored at the deepest ply over another key's entry came
\* back unchanged.
C10_Witness ==
    /\ g.last.op = "get"
    /\ g.last.prev.op = "set"
    /\ g.last.prev.key = g.last.key
    /\ g.last.prev.flag = Exact
    /\ g.last.prev.replaced_other
    /\ g.last.prev.ply = MAX_PLY
    /\ g.last.ply = MAX_PLY
    /\ g.last.prev.score = MATE_LOWER_BOUND + 1
    /\ g.last.result = Some(MATE_LOWER_BOUND + 1)

(***************************************************************************)
(* Time manager.  The clock is the one thing outside the program: reached  *)
(* says whether Instant::now() has got to stop_time.                       *)
(***************************************************************************)
Conventional(moves_to_go) == [kind |-> "Conventional", n |-> 0, moves_to_go |-> moves_to_go]
MoveTime == [kind |-> "MoveTime", n |-> 0, moves_to_go |-> None]
Infinite == [kind |-> "Infinite", n |-> 0, moves_to_go |-> None]
FixedDepth(max_depth) == [kind |-> "FixedDepth", n |-> max_depth, moves_to_go |-> None]
FixedNodes(max_nodes) == [kind |-> "FixedNodes", n |-> max_nodes, moves_to_go |-> None]
MateIn(mate_depth) == [kind |-> "MateIn", n |-> mate_depth, moves_to_go |-> None]

\* time_left / moves_to_go.unwrap_or(40): dividing a Duration by 0 panics.
compute_stop_time_panics(time_control) ==
    time_control.kind = "Conventional" /\ time_control.moves_to_go = Some(0)

TimeManager_new(time_control) ==
    [control |-> "set",
     time_control |-> time_control,
     has_stop_time |-> time_control.kind \in {"MoveTime", "Conventional"},
     reached |-> FALSE]

should_stop(t, depth, nodes) ==
    IF t.has_stop_time THEN t.reached
    ELSE IF t.time_control.kind = "FixedDepth" THEN depth >= t.time_control.n
    ELSE IF t.time_control.kind = "FixedNodes" THEN nodes >= t.time_control.n
    ELSE IF t.time_control.kind = "MateIn" THEN depth > t.time_control.n * 2
    ELSE FALSE

(***************************************************************************)
(* Milky: new_game, load_moves, think.                                     *)
(***************************************************************************)
NewGame ==
    /\ phase = "idle"
    /\ g.searched \/ ~g.loaded
    /\ g.last.op # "new_game"
    /\ tt' = TranspositionTable_clear(tt)
    /\ board' = BoardState_reset(board)
    /\ g' = [g EXCEPT !.game = <<>>,
                      !.last = [op |-> "new_game",
                                stored |-> {tt[i].key : i \in DOMAIN tt},
                                before |-> [ply |-> board.ply,
                                            repetition_index |-> board.repetition_index]]]
    /\ UNCHANGED <<zobrist, search, tm, frames, phase, out>>

\* A move as the protocol gives it: <<source, target, promotion>>.
MatchingMoves(moves, mv) ==
    {i \in 1..Len(moves) : /\ source(moves[i]) = mv[1]
                           /\ target(moves[i]) = mv[2]
                           /\ promotion(moves[i]) = mv[3]}

\* One turn of the loop of load_moves on st = [board, zpos, moves, panic,
\* done, game]; done is the early return on an unmatched move.  The turn
\* is written in three parts, each binding what the part before computed,
\* so that the generated moves and the made move are computed once.
\*
\* The end of the turn: r is the outcome of make_move.
load_moves_made(st, moves, r) ==
    [board |-> r.board, zpos |-> r.zpos, moves |-> moves,
     panic |-> r.panic, done |-> r.panic,
     game |-> IF r.ok THEN Append(st.game, st.zpos) ELSE st.game]

\* A turn that records the repetition before it looks for the move.
load_moves_found_records_first(st, moves, found) ==
    IF found = {}
    THEN [st EXCEPT !.board = record_repetition(st.board, st.zpos), !.moves = moves,
                    !.done = TRUE]
    ELSE CHOOSE next \in
            {load_moves_made(st, moves, r) :
                r \in {make_move(record_repetition(st.board, st.zpos), st.zpos,
                                 valid_move, AllMoves) :
                          valid_move \in {moves[Min(found)]}}} : TRUE

\* The turn after generate_moves: found are the indices of the generated
\* moves that match mv, find() takes the first.
load_moves_found(st, moves, found) ==
    IF found = {} THEN [st EXCEPT !.moves = moves, !.done = TRUE]
    ELSE IF record_repetition_panics(st.board)
    THEN [st EXCEPT !.moves = moves, !.done = TRUE, !.panic = TRUE]
    ELSE CHOOSE next \in
            {load_moves_made(st, moves, r) :
                r \in {make_move(record_repetition(st.board, st.zpos), st.zpos,
                                 valid_move, AllMoves) :
                          valid_move \in {moves[Min(found)]}}} : TRUE

load_moves_step(st, mv) ==
    CHOOSE next \in {load_moves_found(st, moves, MatchingMoves(moves, mv)) :
                        moves \in {generate_moves(st.board)}} : TRUE

\* The loop of load_moves; each turn's outcome is bound to next, so that it
\* is computed once.
RECURSIVE load_moves(_, _)
load_moves(st, mvs) ==
    IF mvs = <<>> \/ st.done THEN st
    ELSE CHOOSE r \in {load_moves(next, Tail(mvs)) :
                          next \in {load_moves_step(st, Head(mvs))}} : TRUE

LoadMoves(mvs) ==
    /\ phase = "idle"
    /\ g.loaded
    /\ ~g.searched
    /\ g.replayed = <<>>
    /\ mvs # <<>>
    /\ \E r \in {load_moves([board |-> board, zpos |-> zobrist, moves |-> search.moves,
                              panic |-> FALSE, done |-> FALSE, game |-> g.game], mvs)} :
          /\ board' = r.board
          /\ zobrist' = r.zpos
          /\ search' = [search EXCEPT !.moves = r.moves]
          /\ phase' = IF r.panic THEN "panicked" ELSE "idle"
          /\ g' = [g EXCEPT !.replayed = mvs, !.game = r.game,
                            !.last = [op |-> "load_moves",
                                      before |-> [board |-> board, zpos |-> zobrist]]]
    /\ UNCHANGED <<tt, tm, frames, out>>

\* An activation of search_position, negamax or quiescence.  stage is where
\* it stands, ret the value its last callee returned.
Frame(fn, alpha, beta, depth) ==
    [fn |-> fn, stage |-> "entry", alpha |-> alpha, beta |-> beta, depth |-> depth,
     tt_flag |-> Alpha, in_check |-> FALSE, moves |-> <<>>, idx |-> 1,
     legal_moves |-> 0, moves_searched |-> 0, ret |-> 0]

\* think: a TimeManager is built, then search_position starts: counters,
\* killers, history and PV are cleared and the window is opened.
Think(time_control) ==
    /\ phase = "idle"
    /\ g.loaded
    /\ ~g.searched
    /\ IF compute_stop_time_panics(time_control)
       THEN /\ phase' = "panicked"
            /\ UNCHANGED <<search, tm, frames>>
       ELSE /\ phase' = "searching"
            /\ tm' = TimeManager_new(time_control)
            /\ search' = [SearchState_new EXCEPT !.moves = search.moves]
            /\ frames' = <<[Frame("search_position", -INFINITY, INFINITY, 1)
                              EXCEPT !.stage = "loop"]>>
    /\ g' = [g EXCEPT !.searched = TRUE, !.stopped = FALSE, !.path = <<>>,
                      !.completed = [depth |-> 0, best |-> MoveDefault],
                      !.held = MoveDefault, !.seen = {},
                      !.root = [visible |-> Visible(board, zobrist), ply |-> board.ply,
                                repetition_index |-> board.repetition_index,
                                snapshots |-> Len(board.snapshots)],
                      !.last = [op |-> "think", before |-> Visible(board, zobrist)]]
    /\ UNCHANGED <<board, zobrist, tt, out>>

\* The clock gets to stop_time.
Tick ==
    /\ phase = "searching"
    /\ tm.has_stop_time
    /\ ~tm.reached
    /\ tm' = [tm EXCEPT !.reached = TRUE]
    /\ UNCHANGED <<board, zobrist, search, tt, frames, phase, out, g>>

(***************************************************************************)
(* search_position.                                                        *)
(***************************************************************************)
ASPIRATION_WINDOW == 50
FULL_DEPTH_MOVES == 4
REDUCTION_LIMIT == 3
U8_MAX == 255
MaxTimedDepth == 2

\* x + 1 on a u8: at 255 a build with overflow checks panics (-1 here), a
\* build without them wraps to 0.
U8Inc(x) == IF x < U8_MAX THEN {x + 1} ELSE {0, -1}

Top == frames[Len(frames)]
SetTop(fs, f) == [fs EXCEPT ![Len(fs)] = f]
Call(fs, stage, callee) == Append([fs EXCEPT ![Len(fs)].stage = stage], callee)
Return(fs, v) == [SubSeq(fs, 1, Len(fs) - 1) EXCEPT ![Len(fs) - 1].ret = v]

Returned(fn, why, v, ply) ==
    [op |-> "return", fn |-> fn, why |-> why, value |-> v, ply |-> ply]

Panicked(why) ==
    /\ phase' = "panicked"
    /\ g' = [g EXCEPT !.last = [op |-> "panic", why |-> why]]

InfoLine(score, depth, nodes, pv) ==
    [kind |-> "info",
     unit |-> IF (score > -MATE_UPPER_BOUND /\ score < -MATE_LOWER_BOUND)
                 \/ (score > MATE_LOWER_BOUND /\ score < MATE_UPPER_BOUND)
              THEN "mate" ELSE "cp",
     score |-> IF score > -MATE_UPPER_BOUND /\ score < -MATE_LOWER_BOUND
               THEN TruncDiv(-(score + MATE_UPPER_BOUND), 2) - 1
               ELSE IF score > MATE_LOWER_BOUND /\ score < MATE_UPPER_BOUND
               THEN TruncDiv(MATE_UPPER_BOUND - score, 2) + 1
               ELSE score,
     depth |-> depth, nodes |-> nodes, pv |-> pv]

\* The head of the while loop: poll the time manager, then either print
\* the two closing lines or start the next root call.  A timed search is
\* followed while the clock has passed stop_time by iteration
\* MaxTimedDepth + 1, any search until its depth counter has wrapped.
SearchLoop ==
    /\ phase = "searching"
    /\ Top.fn = "search_position"
    /\ Top.stage = "loop"
    /\ Top.depth > 0
    /\ (tm.has_stop_time /\ ~tm.reached) => Top.depth <= MaxTimedDepth
    /\ IF should_stop(tm, Top.depth, search.nodes)
       THEN /\ out' = out \o <<[kind |-> "took", nodes |-> search.nodes],
                               [kind |-> "bestmove", move |-> PvTableAt(search, 0, 0)]>>
            /\ phase' = "idle"
            /\ frames' = <<>>
            /\ g' = [g EXCEPT !.last = [op |-> "bestmove", before |-> g.last]]
            /\ UNCHANGED search
       ELSE /\ search' = [search EXCEPT !.follow_pv = TRUE]
            /\ frames' = Call(frames, "iteration",
                              Frame("negamax", Top.alpha, Top.beta, Top.depth))
            /\ g' = [g EXCEPT !.path = <<>>,
                              !.last = [op |-> "iterate", depth |-> Top.depth]]
            /\ UNCHANGED <<phase, out>>
    /\ UNCHANGED <<board, zobrist, tt, tm>>

\* The root call has returned: the rest of the loop body.
SearchIteration ==
    /\ phase = "searching"
    /\ Top.fn = "search_position"
    /\ Top.stage = "iteration"
    /\ LET score == Top.ret
           failed == score <= Top.alpha \/ score >= Top.beta
           pv == [i \in 1..PvLengthAt(search, 0) |-> PvTableAt(search, 0, i - 1)]
       IN /\ out' = IF failed THEN out
                    ELSE Append(out, InfoLine(score, Top.depth, search.nodes, pv))
          /\ \E next_depth \in U8Inc(Top.depth) :
                IF next_depth = -1
                THEN Panicked("curr_depth") /\ UNCHANGED frames
                ELSE /\ frames' = SetTop(frames,
                            [Top EXCEPT !.stage = "loop",
                                        !.depth = next_depth,
                                        !.alpha = IF failed THEN -INFINITY
                                                  ELSE score - ASPIRATION_WINDOW,
                                        !.beta = IF failed THEN INFINITY
                                                 ELSE score + ASPIRATION_WINDOW])
                     /\ g' = [g EXCEPT !.completed = IF g.stopped THEN @
                                                     ELSE [depth |-> Top.depth,
                                                           best |-> PvTableAt(search, 0, 0)],
                                       !.held = IF failed THEN @
                                                ELSE PvTableAt(search, 0, 0),
                                       !.last = [op |-> "iterated", failed |-> failed,
                                                 depth |-> Top.depth, score |-> score]]
                     /\ UNCHANGED phase
    /\ UNCHANGED <<board, zobrist, search, tt, tm>>

(***************************************************************************)
(* negamax, one action per stretch of code between two recursive calls.    *)
(***************************************************************************)
\* is_repetition that starts its scan after the first recorded position.
is_repetition_skips_first(b, zpos) ==
    \E i \in 2..(b.repetition_index - 1) : RepetitionAt(b, i) = zpos

is_repetition(b, zpos) ==
    \E i \in 0..(b.repetition_index - 1) : RepetitionAt(b, i) = zpos

\* A null move that flips the side to move but leaves the side key alone.
null_move_keeps_side_key(b, zpos) ==
    [board |-> [record_repetition([snapshot_board(b, zpos) EXCEPT !.ply = @ + 1], zpos)
                   EXCEPT !.en_passant = OffBoard,
                          !.side_to_move = enemy(b.side_to_move)],
     zpos |-> Xor(zpos, KeyIf(is_available(b.en_passant), en_passant_keys[b.en_passant]))]

\* The null move: snapshot, ply, repetition record, then the en passant
\* square is dropped and the side flipped, in the board and in the key.
null_move(b, zpos) ==
    [board |-> [record_repetition([snapshot_board(b, zpos) EXCEPT !.ply = @ + 1], zpos)
                   EXCEPT !.en_passant = OffBoard,
                          !.side_to_move = enemy(b.side_to_move)],
     zpos |-> Xor(Xor(zpos, KeyIf(is_available(b.en_passant), en_passant_keys[b.en_passant])),
                  side_key)]

\* A take-back that forgets the repetition index.
take_back_keeps_repetition_index(b) ==
    undo_move([b EXCEPT !.ply = @ - 1])

\* ply -= 1; repetition_index -= 1; zobrist.position = undo_move().
take_back(b) ==
    undo_move([b EXCEPT !.ply = @ - 1, !.repetition_index = @ - 1])

\* The node proper, from the node counter to the null move (lines 206-254),
\* with srch the search state and depth the depth after the check extension.
NegamaxNode(srch, in_check, depth) ==
    IF depth = -1
    THEN Panicked("depth") /\ UNCHANGED <<board, zobrist, search, frames>>
    ELSE IF should_stop(tm, depth, srch.nodes)
    THEN /\ search' = srch
         /\ frames' = Return(frames, 0)
         /\ g' = [g EXCEPT !.stopped = TRUE, !.seen = @ \cup {"stop"},
                           !.last = Returned("negamax", "stop", 0, board.ply)]
         /\ UNCHANGED <<board, zobrist, phase>>
    ELSE IF depth >= REDUCTION_LIMIT /\ ~in_check /\ board.ply # 0
    THEN IF record_repetition_panics(board)
         THEN Panicked("repetition_table") /\ UNCHANGED <<board, zobrist, search, frames>>
         ELSE /\ board' = null_move(board, zobrist).board
              /\ zobrist' = null_move(board, zobrist).zpos
              /\ search' = srch
              /\ frames' = Call(SetTop(frames, [Top EXCEPT !.in_check = in_check,
                                                           !.depth = depth]),
                                "null",
                                Frame("negamax", -Top.beta, -Top.beta + 1, depth - 1 - 2))
              /\ g' = [g EXCEPT !.path = Append(@, zobrist),
                                !.seen = @ \cup {"null move"},
                                !.last = [op |-> "null_move"]]
              /\ UNCHANGED phase
    ELSE /\ search' = srch
         /\ frames' = SetTop(frames, [Top EXCEPT !.stage = "generate",
                                                 !.in_check = in_check,
                                                 !.depth = depth])
         /\ g' = [g EXCEPT !.last = [op |-> "node"]]
         /\ UNCHANGED <<board, zobrist, phase>>

\* Entry of negamax up to the first recursive call or return.
NegamaxEnter ==
    /\ phase = "searching"
    /\ Top.fn = "negamax"
    /\ Top.stage = "entry"
    /\ LET probe == TranspositionTable_get(tt, zobrist, Top.alpha, Top.beta, Top.depth,
                                           board.ply)
           pv_node == Top.beta - Top.alpha > 1
           king == IF board.side_to_move = White THEN WhiteKing ELSE BlackKing
           king_square == trailing_zeros(board.pieces[king])
           srch == [search EXCEPT !.pv_length = ArrSet(@, board.ply, board.ply)]
       IN IF board.ply # 0 /\ is_repetition(board, zobrist)
          THEN /\ frames' = Return(frames, 0)
               /\ g' = [g EXCEPT !.last = Returned("negamax", "repetition", 0, board.ply)]
               /\ UNCHANGED <<board, zobrist, search, phase>>
          ELSE IF probe.some /\ board.ply # 0 /\ ~pv_node
          THEN /\ frames' = Return(frames, probe.value)
               /\ g' = [g EXCEPT !.last = Returned("negamax", "tt", probe.value, board.ply)]
               /\ UNCHANGED <<board, zobrist, search, phase>>
          ELSE IF board.ply >= MAX_PLY
          THEN Panicked("pv_length") /\ UNCHANGED <<board, zobrist, search, frames>>
          ELSE IF Top.depth = 0
          THEN /\ search' = srch
               /\ frames' = Call(frames, "leaf", Frame("quiescence", Top.alpha, Top.beta, 0))
               /\ g' = [g EXCEPT !.last = [op |-> "leaf"]]
               /\ UNCHANGED <<board, zobrist, phase>>
          ELSE IF is_square_attacked_panics(king_square)
          THEN Panicked("king") /\ UNCHANGED <<board, zobrist, search, frames>>
          ELSE LET in_check == is_square_attacked(board, king_square,
                                                  enemy(board.side_to_move))
               IN \E depth \in (IF in_check THEN U8Inc(Top.depth) ELSE {Top.depth}) :
                     NegamaxNode([srch EXCEPT !.nodes = @ + 1], in_check, depth)
    /\ UNCHANGED <<tt, tm, out>>

\* The null-move search has returned.
NegamaxNullReturn ==
    /\ phase = "searching"
    /\ Top.fn = "negamax"
    /\ Top.stage = "null"
    /\ board' = take_back(board).board
    /\ zobrist' = take_back(board).key
    /\ IF -Top.ret >= Top.beta
       THEN /\ frames' = Return(frames, Top.beta)
            /\ g' = [g EXCEPT !.path = SubSeq(@, 1, Len(@) - 1),
                              !.last = Returned("negamax", "null", Top.beta, board.ply - 1)]
       ELSE /\ frames' = SetTop(frames, [Top EXCEPT !.stage = "generate"])
            /\ g' = [g EXCEPT !.path = SubSeq(@, 1, Len(@) - 1),
                              !.last = [op |-> "null_undone"]]
    /\ UNCHANGED <<search, tt, tm, phase, out>>

\* generate_moves, enable_pv_scoring when following the PV, sort_moves; the
\* loop then walks its own copy of the move buffer.
ordered_moves(b, srch, follow) ==
    CHOOSE sorted \in
        {sort_moves(b, scored) :
            scored \in {IF follow /\ generated.follow_pv
                        THEN enable_pv_scoring(generated, b.ply) ELSE generated :
                           generated \in {[srch EXCEPT !.moves = generate_moves(b)]}}} :
        TRUE

NegamaxGenerate ==
    /\ phase = "searching"
    /\ Top.fn = "negamax"
    /\ Top.stage = "generate"
    /\ \E sorted \in {ordered_moves(board, search, TRUE)} :
          /\ search' = sorted
          /\ frames' = SetTop(frames, [Top EXCEPT !.stage = "loop", !.moves = sorted.moves])
    /\ g' = [g EXCEPT !.last = [op |-> "generate"]]
    /\ UNCHANGED <<board, zobrist, tt, tm, phase, out>>

\* ply += 1; record_repetition; make_move.  A rejected move leaves the
\* board as it was but for the repetition slot just written.
attempt_board(b, zpos) == record_repetition([b EXCEPT !.ply = @ + 1], zpos)
attempt(b, zpos, piece_move, move_kind) ==
    make_move(attempt_board(b, zpos), zpos, piece_move, move_kind)
rejected_board(b, zpos) ==
    [b EXCEPT !.repetition_table = ArrSet(@, b.repetition_index + 1, zpos)]

\* The index of the first move from i on that make_move does not reject
\* (it accepts it or panics on it), Len(moves) + 1 if there is none.
RECURSIVE next_attempt(_, _, _, _, _)
next_attempt(b, zpos, moves, i, move_kind) ==
    IF i > Len(moves) THEN i
    ELSE IF \E r \in {attempt(b, zpos, moves[i], move_kind)} : r.ok \/ r.panic THEN i
    ELSE next_attempt(b, zpos, moves, i + 1, move_kind)

\* The recursive call a legal move starts with (lines 303-323).
first_call(f, piece_move) ==
    IF f.moves_searched = 0
    THEN [stage |-> "first", frame |-> Frame("negamax", -f.beta, -f.alpha, f.depth - 1)]
    ELSE IF /\ f.moves_searched >= FULL_DEPTH_MOVES
            /\ f.depth >= REDUCTION_LIMIT
            /\ ~f.in_check
            /\ ~is_capture(piece_move)
            /\ ~is_promoting(promotion(piece_move))
    THEN [stage |-> "shallow", frame |-> Frame("negamax", -f.alpha - 1, -f.alpha, f.depth - 2)]
    ELSE [stage |-> "deeper", frame |-> Frame("negamax", -f.alpha - 1, -f.alpha, f.depth - 1)]

\* An epilogue that scores every mate alike, whatever the ply.
NegamaxEpilogue_without_ply ==
    IF Top.legal_moves = 0
    THEN LET score == IF Top.in_check THEN -MATE_UPPER_BOUND ELSE 0
         IN /\ frames' = Return(frames, score)
            /\ g' = [g EXCEPT !.last = Returned("negamax", "no_legal_moves", score, board.ply)]
            /\ UNCHANGED tt
    ELSE /\ tt' = TranspositionTable_set(tt, zobrist, Top.depth, Top.alpha, Top.tt_flag,
                                         board.ply)
         /\ frames' = Return(frames, Top.alpha)
         /\ g' = [g EXCEPT !.last = Returned("negamax", "done", Top.alpha, board.ply)]

\* The loop is over (lines 406-417).
NegamaxEpilogue ==
    IF Top.legal_moves = 0
    THEN LET score == IF Top.in_check THEN -MATE_UPPER_BOUND + board.ply ELSE 0
         IN /\ frames' = Return(frames, score)
            /\ g' = [g EXCEPT !.last = Returned("negamax", "no_legal_moves", score, board.ply)]
            /\ UNCHANGED tt
    ELSE /\ tt' = TranspositionTable_set(tt, zobrist, Top.depth, Top.alpha, Top.tt_flag,
                                         board.ply)
         /\ frames' = Return(frames, Top.alpha)
         /\ g' = [g EXCEPT !.last = Returned("negamax", "done", Top.alpha, board.ply)]

\* The head of the move loop, up to the recursive call for the next legal
\* move, or to the return when no move is left.
NegamaxNextMove ==
    /\ phase = "searching"
    /\ Top.fn = "negamax"
    /\ Top.stage = "loop"
    /\ \E j \in {next_attempt(board, zobrist, Top.moves, Top.idx, AllMoves)} :
          IF Top.idx <= Len(Top.moves) /\ record_repetition_panics(board)
          THEN Panicked("repetition_table") /\ UNCHANGED <<board, zobrist, tt, frames>>
          ELSE IF j > Len(Top.moves)
          THEN /\ board' = IF Top.idx <= Len(Top.moves)
                           THEN rejected_board(board, zobrist) ELSE board
               /\ NegamaxEpilogue
               /\ UNCHANGED <<zobrist, phase>>
          ELSE \E r \in {attempt(board, zobrist, Top.moves[j], AllMoves)} :
          IF r.panic
          THEN Panicked("make_move") /\ UNCHANGED <<board, zobrist, tt, frames>>
          ELSE /\ board' = r.board
               /\ zobrist' = r.zpos
               /\ frames' = Call(SetTop(frames, [Top EXCEPT !.idx = j,
                                                            !.legal_moves = @ + 1]),
                                 first_call(Top, Top.moves[j]).stage,
                                 first_call(Top, Top.moves[j]).frame)
               /\ g' = [g EXCEPT !.path = Append(@, zobrist),
                                 !.seen = IF j > Top.idx THEN @ \cup {"illegal move"} ELSE @,
                                 !.last = [op |-> "move", piece_move |-> Top.moves[j]]]
               /\ UNCHANGED <<tt, phase>>
    /\ UNCHANGED <<search, tm, out>>

\* score > alpha: history, alpha and the principal variation (lines 353-376).
raise_alpha(srch, ply, depth, piece_move) ==
    LET len == PvLengthAt(srch, ply + 1)
        copied == {<<ply, next_ply>> : next_ply \in (ply + 1)..(len - 1)}
    IN [srch EXCEPT
          !.history_moves =
              IF is_capture(piece_move) THEN @
              ELSE ArrSet(@, <<piece(piece_move), target(piece_move)>>,
                          HistoryAt(srch, piece(piece_move), target(piece_move)) + depth),
          !.pv_table =
              [k \in (DOMAIN srch.pv_table) \cup copied \cup {<<ply, ply>>} |->
                  IF k = <<ply, ply>> THEN piece_move
                  ELSE IF k \in copied THEN PvTableAt(srch, ply + 1, k[2])
                  ELSE srch.pv_table[k]],
          !.pv_length = ArrSet(@, ply, len)]

\* The killer moves after a quiet move caused a beta cutoff.
store_killer(srch, ply, piece_move) ==
    IF is_capture(piece_move) THEN srch
    ELSE [srch EXCEPT !.killer_moves =
             ArrSet(ArrSet(@, <<1, ply>>, KillerAt(srch, 0, ply)), <<0, ply>>, piece_move)]

\* The move has its score: take it back and account for it (lines 343-403).
NegamaxScored(score) ==
    LET b == take_back(board).board
        piece_move == Top.moves[Top.idx]
        raised == raise_alpha(search, b.ply, Top.depth, piece_move)
    IN /\ board' = b
       /\ zobrist' = take_back(board).key
       /\ IF score > Top.alpha /\ b.ply + 1 >= MAX_PLY
          THEN Panicked("pv_length") /\ UNCHANGED <<search, tt, frames>>
          ELSE IF score > Top.alpha /\ score >= Top.beta
          THEN /\ tt' = TranspositionTable_set(tt, take_back(board).key, Top.depth,
                                               Top.beta, Beta, b.ply)
               /\ search' = store_killer(raised, b.ply, piece_move)
               /\ frames' = Return(frames, Top.beta)
               /\ g' = [g EXCEPT !.path = SubSeq(@, 1, Len(@) - 1),
                                 !.seen = @ \cup {"beta cutoff"},
                                 !.last = Returned("negamax", "cutoff", Top.beta, b.ply)]
               /\ UNCHANGED phase
          ELSE /\ search' = IF score > Top.alpha THEN raised ELSE search
               /\ frames' = SetTop(frames,
                     [Top EXCEPT !.stage = "loop",
                                 !.idx = @ + 1,
                                 !.moves_searched = @ + 1,
                                 !.alpha = IF score > Top.alpha THEN score ELSE @,
                                 !.tt_flag = IF score > Top.alpha THEN Exact ELSE @])
               /\ g' = [g EXCEPT !.path = SubSeq(@, 1, Len(@) - 1),
                                 !.last = [op |-> "scored", score |-> score,
                                           raised |-> score > Top.alpha,
                                           piece_move |-> piece_move, ply |-> b.ply,
                                           stopped |-> g.stopped]]
               /\ UNCHANGED <<tt, phase>>

\* A recursive call made for a move, or the quiescence call of a leaf, has
\* returned.
NegamaxChildReturn ==
    /\ phase = "searching"
    /\ Top.fn = "negamax"
    /\ Top.stage \in {"leaf", "first", "shallow", "deeper", "full"}
    /\ IF Top.stage = "leaf"
       THEN /\ frames' = Return(frames, Top.ret)
            /\ g' = [g EXCEPT !.last = Returned("negamax", "leaf", Top.ret, board.ply)]
            /\ UNCHANGED <<board, zobrist, search, tt, phase>>
       ELSE IF Top.stage = "shallow" /\ -Top.ret > Top.alpha
       THEN /\ frames' = Call(frames, "deeper",
                              Frame("negamax", -Top.alpha - 1, -Top.alpha, Top.depth - 1))
            /\ g' = [g EXCEPT !.seen = @ \cup {"re-search"}, !.last = [op |-> "research"]]
            /\ UNCHANGED <<board, zobrist, search, tt, phase>>
       ELSE IF Top.stage = "deeper" /\ -Top.ret > Top.alpha /\ -Top.ret < Top.beta
       THEN /\ frames' = Call(frames, "full",
                              Frame("negamax", -Top.beta, -Top.alpha, Top.depth - 1))
            /\ g' = [g EXCEPT !.seen = @ \cup {"re-search"}, !.last = [op |-> "research"]]
            /\ UNCHANGED <<board, zobrist, search, tt, phase>>
       ELSE NegamaxScored(-Top.ret)
    /\ UNCHANGED <<tm, out>>

(***************************************************************************)
(* quiescence.                                                             *)
(***************************************************************************)
QuiescenceEnter ==
    /\ phase = "searching"
    /\ Top.fn = "quiescence"
    /\ Top.stage = "entry"
    /\ \E evaluation \in {evaluate_position(board)} :
       LET srch == [search EXCEPT !.nodes = @ + 1]
       IN IF board.ply > MAX_PLY - 1
          THEN /\ search' = srch
               /\ frames' = Return(frames, evaluation)
               /\ g' = [g EXCEPT !.last = Returned("quiescence", "max_ply", evaluation,
                                                   board.ply)]
          ELSE IF evaluation >= Top.beta
          THEN /\ search' = srch
               /\ frames' = Return(frames, Top.beta)
               /\ g' = [g EXCEPT !.last = Returned("quiescence", "stand_pat", Top.beta,
                                                   board.ply)]
          ELSE \E sorted \in {ordered_moves(board, srch, FALSE)} :
               /\ search' = sorted
               /\ frames' = SetTop(frames,
                     [Top EXCEPT !.stage = "loop",
                                 !.alpha = IF evaluation > @ THEN evaluation ELSE @,
                                 !.moves = sorted.moves])
               /\ g' = [g EXCEPT !.last = [op |-> "generate"]]
    /\ UNCHANGED <<board, zobrist, tt, tm, phase, out>>

QuiescenceNextMove ==
    /\ phase = "searching"
    /\ Top.fn = "quiescence"
    /\ Top.stage = "loop"
    /\ \E j \in {next_attempt(board, zobrist, Top.moves, Top.idx, Captures)} :
          IF Top.idx <= Len(Top.moves) /\ record_repetition_panics(board)
          THEN Panicked("repetition_table") /\ UNCHANGED <<board, zobrist, frames>>
          ELSE IF j > Len(Top.moves)
          THEN /\ board' = IF Top.idx <= Len(Top.moves)
                           THEN rejected_board(board, zobrist) ELSE board
               /\ frames' = Return(frames, Top.alpha)
               /\ g' = [g EXCEPT !.last = Returned("quiescence", "done", Top.alpha,
                                                   board.ply)]
               /\ UNCHANGED <<zobrist, phase>>
          ELSE \E r \in {attempt(board, zobrist, Top.moves[j], Captures)} :
          IF r.panic
          THEN Panicked("make_move") /\ UNCHANGED <<board, zobrist, frames>>
          ELSE /\ board' = r.board
               /\ zobrist' = r.zpos
               /\ frames' = Call(SetTop(frames, [Top EXCEPT !.idx = j]), "capture",
                                 Frame("quiescence", -Top.beta, -Top.alpha, 0))
               /\ g' = [g EXCEPT !.path = Append(@, zobrist),
                                 !.seen = IF j > Top.idx THEN @ \cup {"illegal move"} ELSE @,
                                 !.last = [op |-> "move", piece_move |-> Top.moves[j]]]
               /\ UNCHANGED phase
    /\ UNCHANGED <<search, tt, tm, out>>

QuiescenceChildReturn ==
    /\ phase = "searching"
    /\ Top.fn = "quiescence"
    /\ Top.stage = "capture"
    /\ board' = take_back(board).board
    /\ zobrist' = take_back(board).key
    /\ IF -Top.ret > Top.alpha /\ -Top.ret >= Top.beta
       THEN /\ frames' = Return(frames, Top.beta)
            /\ g' = [g EXCEPT !.path = SubSeq(@, 1, Len(@) - 1),
                              !.last = Returned("quiescence", "cutoff", Top.beta,
                                                board.ply - 1)]
       ELSE /\ frames' = SetTop(frames,
                  [Top EXCEPT !.stage = "loop",
                              !.idx = @ + 1,
                              !.alpha = IF -Top.ret > @ THEN -Top.ret ELSE @])
            /\ g' = [g EXCEPT !.path = SubSeq(@, 1, Len(@) - 1),
                              !.last = [op |-> "scored", score |-> -Top.ret,
                                        raised |-> -Top.ret > Top.alpha,
                                        piece_move |-> Top.moves[Top.idx],
                                        ply |-> board.ply - 1, stopped |-> g.stopped]]
    /\ UNCHANGED <<search, tt, tm, phase, out>>

(***************************************************************************)
(* Spec: the engine as a protocol driver uses it.  A run loads one of the  *)
(* positions, may replay moves, and searches once under a time control.    *)
(***************************************************************************)
NoMoves == <<>>
\* c8b6 with check, then a8a7.
CheckAndStepOut == <<<<SquareAt(2, 8), SquareAt(1, 6), NoPromotion>>,
                     <<A8, SquareAt(0, 7), NoPromotion>>>>
KingsStepAside == <<<<SquareAt(4, 2), D1, NoPromotion>>, <<E8, D8, NoPromotion>>>>
DoublePush == <<<<SquareAt(3, 7), SquareAt(3, 5), NoPromotion>>>>
\* e2d1, then e8e6 (no king move), then e8d8.
UnmatchedSecond == <<<<SquareAt(4, 2), D1, NoPromotion>>, <<E8, SquareAt(4, 6), NoPromotion>>,
                     <<E8, D8, NoPromotion>>>>
\* b7b8 without the piece to promote to.
PromotionUnstated == <<<<SquareAt(1, 7), SquareAt(1, 8), NoPromotion>>>>
\* e2e3, which leaves the king on h1 in check, then e2e4.
CheckIgnored == <<<<SquareAt(4, 2), SquareAt(4, 3), NoPromotion>>,
                  <<SquareAt(4, 2), SquareAt(4, 4), NoPromotion>>>>
NodeBudgets == {60, 80, 100, 120}

SearchRuns ==
    {[fen |-> PosStalemate, moves |-> NoMoves, time_control |-> Infinite],
     [fen |-> PosStalemate, moves |-> NoMoves, time_control |-> FixedDepth(0)],
     [fen |-> PosStalemate, moves |-> NoMoves, time_control |-> Conventional(Some(0))],
     [fen |-> PosMateInOne, moves |-> NoMoves, time_control |-> FixedDepth(3)],
     [fen |-> PosMateInOne, moves |-> NoMoves, time_control |-> MoveTime],
     [fen |-> PosMateInOne, moves |-> NoMoves, time_control |-> Conventional(None)],
     [fen |-> PosKings, moves |-> KingsStepAside, time_control |-> FixedDepth(3)],
     [fen |-> PosCastleLong, moves |-> NoMoves, time_control |-> FixedDepth(2)],
     [fen |-> PosEnPassant, moves |-> DoublePush, time_control |-> FixedDepth(2)],
     [fen |-> PosPromotion, moves |-> NoMoves, time_control |-> FixedDepth(2)],
     [fen |-> PosBlockCheck, moves |-> NoMoves, time_control |-> MateIn(2)],
     [fen |-> PosKings, moves |-> UnmatchedSecond, time_control |-> FixedDepth(1)],
     [fen |-> PosPromotion, moves |-> PromotionUnstated, time_control |-> FixedDepth(1)],
     [fen |-> PosPromotionRace, moves |-> NoMoves, time_control |-> FixedDepth(4)],
     [fen |-> PosMateOrCapture, moves |-> NoMoves, time_control |-> FixedDepth(3)],
     [fen |-> PosBlockCheck, moves |-> NoMoves, time_control |-> FixedDepth(2)],
     [fen |-> PosBlockCheck, moves |-> CheckIgnored, time_control |-> FixedDepth(1)],
     [fen |-> PosPerpetualCheck, moves |-> CheckAndStepOut, time_control |-> FixedDepth(4)],
     [fen |-> PosCastleNoKing, moves |-> NoMoves, time_control |-> FixedDepth(2)],
     [fen |-> PosEnPassantBlocked, moves |-> NoMoves, time_control |-> FixedDepth(2)]}
    \cup {[fen |-> PosBlockCheck, moves |-> NoMoves, time_control |-> FixedNodes(n)] :
             n \in NodeBudgets}

Next ==
    \/ NewGame
    \/ \E run \in SearchRuns : LoadPosition(run.fen)
    \/ \E run \in SearchRuns : run.fen = g.fen /\ LoadMoves(run.moves)
    \/ \E run \in SearchRuns :
          /\ run.fen = g.fen
          /\ run.moves = g.replayed
          /\ Think(run.time_control)
    \/ Tick
    \/ SearchLoop
    \/ SearchIteration
    \/ NegamaxEnter
    \/ NegamaxNullReturn
    \/ NegamaxGenerate
    \/ NegamaxNextMove
    \/ NegamaxChildReturn
    \/ QuiescenceEnter
    \/ QuiescenceNextMove
    \/ QuiescenceChildReturn

Spec == Init /\ [][Next]_vars

(***************************************************************************)
(* Properties of the search, checked under Spec.                           *)
(***************************************************************************)

\* C2 as stated: once a position is loaded, in every state - after load_position and
\* load_moves, after every accepted or rejected make_move, after every
\* undo_move and inside the null-move window of negamax - the Zobrist key
\* is the key hash_position computes from the pieces, the en passant
\* square, the castling rights and the side to move.
C2_KeyMatchesPosition ==
    (g.loaded /\ phase # "panicked") =>
        zobrist = hash_position(board.pieces, board.side_to_move, board.en_passant,
                                board.castling_rights)

\* C2, amended: the same, for a loaded position that holds a castling right
\* only with the king and the rook of that wing on their home squares, and
\* whose en passant square, if it has one, is empty with the pawn that
\* passed over it right behind it.
C2_KeyMatchesWellFormedPosition ==
    (g.loaded /\ phase # "panicked" /\ CastlingRightsAtHome(g.fen) /\ EnPassantBehindPawn(g.fen))
        => zobrist = hash_position(board.pieces, board.side_to_move, board.en_passant,
                                   board.castling_rights)

\* Inside a null-move window that was opened on a position with an en
\* passant square.
C2_Witness ==
    /\ phase = "searching"
    /\ CastlingRightsAtHome(g.fen)
    /\ EnPassantBehindPawn(g.fen)
    /\ g.last.op = "null_move"
    /\ frames[Len(frames) - 1].stage = "null"
    /\ board.snapshots[Len(board.snapshots)].en_passant # OffBoard
    /\ board.en_passant = OffBoard

\* C5: when the time manager said stop inside a root iteration that
\* followed at least one completed iteration, the move printed after
\* bestmove is the first move of the principal variation as the last
\* completed iteration left it.
C5_BestMoveFromCompletedIteration ==
    (g.last.op = "bestmove" /\ g.stopped /\ g.completed.depth >= 1) =>
        out[Len(out)].move = g.completed.best

BestMoveLines == {i \in 1..Len(out) : out[i].kind = "bestmove"}

\* C6: a search that was started is over only with exactly one bestmove
\* line printed, and that line is the last one, after every info line.
C6_SearchEndsWithOneBestMove ==
    (g.searched /\ phase # "searching") =>
        /\ Cardinality(BestMoveLines) = 1
        /\ out[Len(out)].kind = "bestmove"

\* The keys of the positions of the replayed game and of the positions on
\* the search path above the current node.
EarlierKeys ==
    {g.game[i] : i \in 1..Len(g.game)} \cup {g.path[i] : i \in 1..Len(g.path)}

\* C7: a negamax activation entered at ply # 0 on a position whose key is
\* the key of an earlier position of the replayed game or of the search
\* path returns 0 at once: the transposition table, the move buffer, the
\* node counter and the board are as they were.
C7_RepetitionReturnsZero ==
    [][(/\ phase = "searching"
        /\ Top.fn = "negamax"
        /\ Top.stage = "entry"
        /\ frames' # frames
        /\ board.ply # 0
        /\ zobrist \in EarlierKeys)
       => (/\ frames' = Return(frames, 0)
           /\ UNCHANGED <<board, zobrist, search, tt>>)]_vars

\* At ply 2 the search came back to the position the replayed game started
\* from, and negamax returned 0 for it.
C7_Witness ==
    /\ g.last = Returned("negamax", "repetition", 0, 2)
    /\ Len(g.game) = 2
    /\ zobrist = g.game[1]
    /\ search.nodes > 0

NoLegalMove(b, zpos) ==
    \A i \in 1..Len(generate_moves(b)) :
        ~make_move(b, zpos, generate_moves(b)[i], AllMoves).ok

InCheck(b) ==
    AttackedBy(b.pieces,
               trailing_zeros(b.pieces[IF b.side_to_move = White THEN WhiteKing
                                       ELSE BlackKing]),
               enemy(b.side_to_move))

\* C8: a negamax activation at ply p whose position has no legal move
\* returns -MATE_UPPER_BOUND + p when the side to move is in check and 0
\* when it is not; seen from the mating side, a mate at a smaller ply
\* scores higher than a mate at a larger ply.
C8_NoLegalMoveScore ==
    [][(/\ phase = "searching"
        /\ Top.fn = "negamax"
        /\ Top.stage = "loop"
        /\ frames' # frames
        /\ NoLegalMove(board, zobrist))
       => (/\ frames' = Return(frames, IF InCheck(board)
                                       THEN -MATE_UPPER_BOUND + board.ply ELSE 0)
           /\ \A p \in 0..MAX_PLY : \A q \in 0..MAX_PLY :
                 p < q => -(-MATE_UPPER_BOUND + p) > -(-MATE_UPPER_BOUND + q))]_vars

\* A checkmate was found one ply below the root.
C8_Witness ==
    /\ g.last = Returned("negamax", "no_legal_moves", -MATE_UPPER_BOUND + 1, 1)
    /\ InCheck(board)
    /\ NoLegalMove(board, zobrist)

\* One king per side, and the side not to move is not in check.
KingsSafeAtLoad(fen_parts) ==
    /\ OneKingEach(fen_parts.positions)
    /\ ~AttackedBy(fen_parts.positions,
                   trailing_zeros(fen_parts.positions[IF fen_parts.side_to_move = White
                                                      THEN BlackKing ELSE WhiteKing]),
                   fen_parts.side_to_move)

\* C13 as stated: in every position reached by make_move calls that
\* returned true, undo_move and the null move of the search, from a loaded
\* position with exactly one king per side in which the side not to move is
\* not in check, each side has exactly one king.
C13_OneKingPerSide ==
    (g.loaded /\ KingsSafeAtLoad(g.fen)) => OneKingEach(board.pieces)

\* C13, amended: the same, from a loaded position that in addition holds a
\* castling right only with the king and the rook of that wing on their
\* home squares.
C13_OneKingPerSideFromHomeCastlingRights ==
    (g.loaded /\ KingsSafeAtLoad(g.fen) /\ CastlingRightsAtHome(g.fen))
        => OneKingEach(board.pieces)

\* Inside a null-move window that the search opened below a move it made
\* from such a position.
C13_Witness ==
    /\ phase = "searching"
    /\ g.last.op = "null_move"
    /\ board.ply >= 2
    /\ KingsSafeAtLoad(g.fen)
    /\ CastlingRightsAtHome(g.fen)
    /\ OneKingEach(board.pieces)

(***************************************************************************)
(* SpecPerft: benches/perft.rs.  Each bench loads one reference position   *)
(* into a new engine and runs perft_driver to one depth; the activations   *)
(* of perft_driver are frames, the bottom frame is the bench closure and   *)
(* its ret is the local `nodes`.                                           *)
(***************************************************************************)
MaxPerftDepth == 2

Placed(pc, squares) == {<<pc, sq>> : sq \in squares}

\* rnbqkbnr/pppppppp/8/8/8/8/PPPPPPPP/RNBQKBNR w KQkq - 0 1
PerftInitial ==
    FenParts(Placed(WhitePawn, {48, 49, 50, 51, 52, 53, 54, 55}) \cup Placed(WhiteKnight, {57, 62}) \cup
             Placed(WhiteBishop, {58, 61}) \cup Placed(WhiteRook, {56, 63}) \cup
             Placed(WhiteQueen, {59}) \cup Placed(WhiteKing, {60}) \cup
             Placed(BlackPawn, {8, 9, 10, 11, 12, 13, 14, 15}) \cup Placed(BlackKnight, {1, 6}) \cup
             Placed(BlackBishop, {2, 5}) \cup Placed(BlackRook, {0, 7}) \cup
             Placed(BlackQueen, {3}) \cup Placed(BlackKing, {4}),
             White, OffBoard, WHITE_K + WHITE_Q + BLACK_K + BLACK_Q)

\* r3k2r/p1ppqpb1/bn2pnp1/3PN3/1p2P3/2N2Q1p/PPPBBPPP/R3K2R w KQkq -
PerftKiwipete ==
    FenParts(Placed(WhitePawn, {27, 36, 48, 49, 50, 53, 54, 55}) \cup Placed(WhiteKnight, {28, 42}) \cup
             Placed(WhiteBishop, {51, 52}) \cup Placed(WhiteRook, {56, 63}) \cup
             Placed(WhiteQueen, {45}) \cup Placed(WhiteKing, {60}) \cup
             Placed(BlackPawn, {8, 10, 11, 13, 20, 22, 33, 47}) \cup Placed(BlackKnight, {17, 21}) \cup
             Placed(BlackBishop, {14, 16}) \cup Placed(BlackRook, {0, 7}) \cup
             Placed(BlackQueen, {12}) \cup Placed(BlackKing, {4}),
             White, OffBoard, WHITE_K + WHITE_Q + BLACK_K + BLACK_Q)

\* 8/2p5/3p4/KP5r/1R3p1k/8/4P1P1/8 w - - 0 1
PerftEndgame ==
    FenParts(Placed(WhitePawn, {25, 52, 54}) \cup Placed(WhiteRook, {33}) \cup
             Placed(WhiteKing, {24}) \cup Placed(BlackPawn, {10, 19, 37}) \cup
             Placed(BlackRook, {31}) \cup Placed(BlackKing, {39}),
             White, OffBoard, 0)

\* r3k2r/Pppp1ppp/1b3nbN/nP6/BBP1P3/q4N2/Pp1P2PP/R2Q1RK1 w kq - 0 1
PerftComplex ==
    FenParts(Placed(WhitePawn, {8, 25, 34, 36, 48, 51, 54, 55}) \cup Placed(WhiteKnight, {23, 45}) \cup
             Placed(WhiteBishop, {32, 33}) \cup Placed(WhiteRook, {56, 61}) \cup
             Placed(WhiteQueen, {59}) \cup Placed(WhiteKing, {62}) \cup
             Placed(BlackPawn, {9, 10, 11, 13, 14, 15, 49}) \cup Placed(BlackKnight, {21, 24}) \cup
             Placed(BlackBishop, {17, 22}) \cup Placed(BlackRook, {0, 7}) \cup
             Placed(BlackQueen, {40}) \cup Placed(BlackKing, {4}),
             White, OffBoard, BLACK_K + BLACK_Q)

\* rnbq1k1r/pp1Pbppp/2p5/8/2B5/8/PPP1NnPP/RNBQK2R w KQ - 1 8
PerftKnightFork ==
    FenParts(Placed(WhitePawn, {11, 48, 49, 50, 54, 55}) \cup Placed(WhiteKnight, {52, 57}) \cup
             Placed(WhiteBishop, {34, 58}) \cup Placed(WhiteRook, {56, 63}) \cup
             Placed(WhiteQueen, {59}) \cup Placed(WhiteKing, {60}) \cup
             Placed(BlackPawn, {8, 9, 13, 14, 15, 18}) \cup Placed(BlackKnight, {1, 53}) \cup
             Placed(BlackBishop, {2, 12}) \cup Placed(BlackRook, {0, 7}) \cup
             Placed(BlackQueen, {3}) \cup Placed(BlackKing, {5}),
             White, OffBoard, WHITE_K + WHITE_Q)

\* r4rk1/1pp1qppp/p1np1n2/2b1p1B1/2B1P1b1/P1NP1N2/1PP1QPPP/R4RK1 w - - 0 10
PerftItalianGame ==
    FenParts(Placed(WhitePawn, {36, 40, 43, 49, 50, 53, 54, 55}) \cup Placed(WhiteKnight, {42, 45}) \cup
             Placed(WhiteBishop, {30, 34}) \cup Placed(WhiteRook, {56, 61}) \cup
             Placed(WhiteQueen, {52}) \cup Placed(WhiteKing, {62}) \cup
             Placed(BlackPawn, {9, 10, 13, 14, 15, 16, 19, 28}) \cup Placed(BlackKnight, {18, 21}) \cup
             Placed(BlackBishop, {26, 38}) \cup Placed(BlackRook, {0, 5}) \cup
             Placed(BlackQueen, {12}) \cup Placed(BlackKing, {6}),
             White, OffBoard, 0)

\* The expected_nodes tables of the benches, entries for depth 0 to 4.
PerftTable ==
    {[fen |-> PerftInitial, expected_nodes |-> <<1, 20, 400, 8902, 197281>>],
     [fen |-> PerftKiwipete, expected_nodes |-> <<1, 48, 2039, 97862, 4085603>>],
     [fen |-> PerftEndgame, expected_nodes |-> <<1, 14, 191, 2812, 43238>>],
     [fen |-> PerftComplex, expected_nodes |-> <<1, 6, 264, 9467, 422333>>],
     [fen |-> PerftKnightFork, expected_nodes |-> <<1, 44, 1486, 62379, 2103487>>],
     [fen |-> PerftItalianGame, expected_nodes |-> <<1, 46, 2079, 89890, 3894594>>]}

PerftPositions == {row.fen : row \in PerftTable}

expected_nodes(fen_parts) == (CHOOSE row \in PerftTable : row.fen = fen_parts).expected_nodes

\* The first move at or after i that make_move accepts or panics on;
\* Len(moves) + 1 if the loop runs out.
RECURSIVE perft_next_valid(_, _, _, _)
perft_next_valid(b, zpos, moves, i) ==
    IF i > Len(moves) THEN i
    ELSE IF \E r \in {make_move(b, zpos, moves[i], AllMoves)} : r.ok \/ r.panic THEN i
    ELSE perft_next_valid(b, zpos, moves, i + 1)

\* let mut nodes = 0; perft_driver(&mut milky, &mut nodes, depth)
PerftBench(depth) ==
    /\ phase = "idle"
    /\ g.loaded
    /\ g.last.op = "load"
    /\ phase' = "benching"
    /\ frames' = <<[Frame("bench", 0, 0, depth) EXCEPT !.stage = "called"],
                   Frame("perft_driver", 0, 0, depth)>>
    /\ g' = [g EXCEPT !.last = [op |-> "bench", depth |-> depth]]
    /\ UNCHANGED <<board, zobrist, search, tt, tm, out>>

\* The activation on top returns: to the loop of its caller, or to the
\* bench, which compares nodes with the table.
PerftReturn(fs) ==
    IF Len(fs) = 2
    THEN /\ frames' = <<>>
         /\ phase' = "idle"
         /\ g' = [g EXCEPT !.last = [op |-> "perft", depth |-> fs[1].depth,
                                     nodes |-> fs[1].ret]]
    ELSE /\ frames' = SubSeq(fs, 1, Len(fs) - 1)
         /\ UNCHANGED <<phase, g>>

\* perft_driver from its entry: a leaf is counted, otherwise the moves are
\* generated and the loop starts over a copy of them.
PerftDriverEnter ==
    /\ phase = "benching"
    /\ Top.fn = "perft_driver"
    /\ Top.stage = "entry"
    /\ IF Top.depth = 0
       THEN /\ PerftReturn([frames EXCEPT ![1].ret = @ + 1])
            /\ UNCHANGED search
       ELSE /\ \E moves \in {generate_moves(board)} :
                 /\ search' = [search EXCEPT !.moves = moves]
                 /\ frames' = SetTop(frames, [Top EXCEPT !.stage = "loop", !.moves = moves])
            /\ UNCHANGED <<phase, g>>
    /\ UNCHANGED <<board, zobrist, tt, tm, out>>

\* The loop of perft_driver from one recursive call to the next: undo the
\* move the callee was given, skip the moves make_move refuses, make the
\* next one and recurse; return when the moves run out.
PerftDriverLoop ==
    /\ phase = "benching"
    /\ Top.fn = "perft_driver"
    /\ Top.stage \in {"loop", "called"}
    /\ \E at \in {IF Top.stage = "called"
                  THEN undo_move(board)
                  ELSE [board |-> board, key |-> zobrist]} :
       \E i \in {perft_next_valid(at.board, at.key, Top.moves, Top.idx)} :
          IF i > Len(Top.moves)
          THEN /\ board' = at.board
               /\ zobrist' = at.key
               /\ PerftReturn(frames)
          ELSE \E r \in {make_move(at.board, at.key, Top.moves[i], AllMoves)} :
                  /\ board' = r.board
                  /\ zobrist' = r.zpos
                  /\ IF r.panic
                     THEN /\ phase' = "panicked"
                          /\ UNCHANGED frames
                     ELSE /\ frames' = Call(SetTop(frames, [Top EXCEPT !.idx = i + 1]), "called",
                                            Frame("perft_driver", 0, 0, Top.depth - 1))
                          /\ UNCHANGED phase
                  /\ UNCHANGED g
    /\ UNCHANGED <<search, tt, tm, out>>

NextPerft ==
    \/ \E fen_parts \in PerftPositions : LoadPosition(fen_parts)
    \/ \E depth \in 0..MaxPerftDepth : PerftBench(depth)
    \/ PerftDriverEnter
    \/ PerftDriverLoop

SpecPerft == Init /\ [][NextPerft]_vars

ProbeWindows == {-INFINITY, -1, 0, 1, INFINITY}
ProbeDepths == 0..3
ProbePlies == 0..2

\* C17: after new_game a get for any key that the table held before the
\* call misses, whatever window, depth and ply it is made with, and the
\* board's ply and repetition_index are 0 with every repetition slot reset.
C17_NewGameClears ==
    g.last.op = "new_game" =>
        /\ \A key \in g.last.stored : \A alpha \in ProbeWindows, beta \in ProbeWindows :
              \A depth \in ProbeDepths, ply \in ProbePlies :
                 TranspositionTable_get(tt, key, alpha, beta, depth, ply) = None
        /\ board.ply = 0
        /\ board.repetition_index = 0
        /\ \A i \in 0..(MAX_REPETITIONS - 1) : RepetitionAt(board, i) = ZobristKeyDefault

C17_Witness ==
    /\ g.last.op = "new_game"
    /\ g.searched
    /\ Cardinality(g.last.stored) >= 2
    /\ g.last.before.repetition_index > 0
    /\ tt = <<>>

\* The engine after load_moves of the first n moves of the list last loaded.
ReplayedPrefix(n) ==
    load_moves([board |-> g.last.before.board, zpos |-> g.last.before.zpos, moves |-> <<>>,
                panic |-> FALSE, done |-> FALSE, game |-> <<>>],
               SubSeq(g.replayed, 1, n))

\* Move k of the list is reached and matches no move generated for the
\* position the moves before it lead to.
Unmatched(k) ==
    \E st \in {ReplayedPrefix(k - 1)} :
       /\ ~st.done
       /\ MatchingMoves(generate_moves(st.board), g.replayed[k]) = {}

FirstUnmatched(k) == Unmatched(k) /\ \A j \in 1..(k - 1) : ~Unmatched(j)

\* C18: when load_moves meets a move that matches no generated move, the
\* position, the key, the snapshot stack and repetition_index are left as
\* they were after the moves that preceded it in the list.
C18_UnmatchedMoveDoesNothing ==
    g.last.op = "load_moves" =>
        \A k \in 1..Len(g.replayed) :
           FirstUnmatched(k) =>
              \E st \in {ReplayedPrefix(k - 1)} :
                 /\ Visible(board, zobrist) = Visible(st.board, st.zpos)
                 /\ board.snapshots = st.board.snapshots
                 /\ board.repetition_index = st.board.repetition_index
                 /\ board.repetition_table = st.board.repetition_table

C18_Witness ==
    /\ g.last.op = "load_moves"
    /\ Len(g.replayed) = 3
    /\ FirstUnmatched(2)
    /\ board.repetition_index = 1
    /\ Len(board.snapshots) = 1
    /\ WhiteKing \in DOMAIN board.pieces /\ D1 \in board.pieces[WhiteKing]

(***************************************************************************)
(* SpecEncode: Move::new called on its own, one move after another; last   *)
(* holds the arguments of the latest call and the word it returned.        *)
(***************************************************************************)
EncodeSources == {A8, SquareAt(7, 5), H1}
EncodeTargets == {A8, SquareAt(0, 4), H1}
EncodePieces == {WhitePawn, WhiteKing, BlackPawn, BlackKing}
EncodePromotions == {NoPromotion, PromoKnight, PromoBishop, PromoRook, PromoQueen}
EncodeFlags == {0, CAPTURE, DOUBLE_PUSH, EN_PASSANT, CASTLING,
                CAPTURE + DOUBLE_PUSH + EN_PASSANT + CASTLING}

MoveNew(src, tgt, pc, promoted, flags) ==
    /\ phase = "idle"
    /\ ~g.loaded
    /\ g' = [g EXCEPT !.last = [op |-> "move_new", source |-> src, target |-> tgt,
                                piece |-> pc, promoted |-> promoted, flags |-> flags,
                                piece_move |-> Move_new(src, tgt, pc, promoted, flags)]]
    /\ UNCHANGED <<board, zobrist, search, tt, tm, frames, phase, out>>

NextEncode ==
    \E src \in EncodeSources, tgt \in EncodeTargets, pc \in EncodePieces :
       \E promoted \in EncodePromotions, flags \in EncodeFlags :
          MoveNew(src, tgt, pc, promoted, flags)

SpecEncode == Init /\ [][NextEncode]_vars

\* What the accessors read from a move, as the arguments of Move::new.
Decoded(m) ==
    [source |-> source(m), target |-> target(m), piece |-> piece(m),
     promoted |-> promotion(m),
     flags |-> (IF is_capture(m) THEN CAPTURE ELSE 0)
               + (IF is_double_push(m) THEN DOUBLE_PUSH ELSE 0)
               + (IF is_en_passant(m) THEN EN_PASSANT ELSE 0)
               + (IF is_castling(m) THEN CASTLING ELSE 0)]

Passed(call) ==
    [source |-> call.source, target |-> call.target, piece |-> call.piece,
     promoted |-> call.promoted, flags |-> call.flags]

\* C19: the accessors of a move built by Move::new return the source,
\* target, piece, promotion and flags it was built from, and the moves of
\* two calls are equal exactly when the calls had the same arguments.
C19_MoveRoundTrip ==
    [][g'.last.op = "move_new" =>
          /\ Decoded(g'.last.piece_move) = Passed(g'.last)
          /\ g.last.op = "move_new" =>
                ((g'.last.piece_move = g.last.piece_move) <=> (Passed(g'.last) = Passed(g.last)))
      ]_vars

C19_Witness ==
    /\ g.last.op = "move_new"
    /\ Passed(g.last) = [source |-> H1, target |-> H1, piece |-> BlackKing,
                         promoted |-> PromoQueen,
                         flags |-> CAPTURE + DOUBLE_PUSH + EN_PASSANT + CASTLING]
    /\ is_castling(g.last.piece_move)
    /\ is_capture(g.last.piece_move)
    /\ promotion(g.last.piece_move) = PromoQueen

\* C20 as stated: when the root call at depth d returns a score outside the
\* aspiration window, the next root call is made at the same depth d with
\* the window (-INFINITY, INFINITY).
C20_FailedWindowResearchesSameDepth ==
    [][(g.last.op = "iterated" /\ g.last.failed /\ g'.last.op = "iterate") =>
          /\ g'.last.depth = g.last.depth
          /\ frames'[Len(frames')].fn = "negamax"
          /\ frames'[Len(frames')].depth = g.last.depth
          /\ frames'[Len(frames')].alpha = -INFINITY
          /\ frames'[Len(frames')].beta = INFINITY
      ]_vars

\* C21 as stated: at the end of a root iteration whose score is outside the
\* aspiration window, pv_table[0][0] is the move it was when the last
\* iteration inside its window finished.
C21_FailedIterationKeepsBestMove ==
    (g.last.op = "iterated" /\ g.last.failed) => PvTableAt(search, 0, 0) = g.held

\* C22 as stated: when a child negamax call has returned 0 because the time
\* manager said stop, the calling node's next step leaves its alpha, the PV
\* table, the history and killer tables and the transposition table alone.
C22_StoppedChildIsDiscarded ==
    [][(/\ phase = "searching"
        /\ g.last.op = "return" /\ g.last.fn = "negamax" /\ g.last.why = "stop"
        /\ Top.fn = "negamax") =>
          /\ tt' = tt
          /\ search'.pv_table = search.pv_table
          /\ search'.history_moves = search.history_moves
          /\ search'.killer_moves = search.killer_moves
          /\ Len(frames') >= Len(frames) => frames'[Len(frames)].alpha = Top.alpha
      ]_vars

\* C24 as stated: whenever search_position has returned, the snapshot stack
\* is empty.
C24_SnapshotsDrainAfterSearch ==
    g.last.op = "bestmove" => board.snapshots = <<>>

\* The generated moves of a position that make_move accepts.
LegalMoves(b, zpos) ==
    {piece_move \in {generate_moves(b)[i] : i \in 1..Len(generate_moves(b))} :
        make_move(b, zpos, piece_move, AllMoves).ok}

\* C26 as stated: after a search under FixedDepth(d), d >= 1, from a root
\* position that has a legal move, the move printed after bestmove is a
\* legal move of the root position.
C26_FixedDepthBestMoveIsLegal ==
    (/\ g.last.op = "bestmove"
     /\ tm.time_control.kind = "FixedDepth"
     /\ tm.time_control.n >= 1
     /\ LegalMoves(board, zobrist) # {}) =>
        out[Len(out)].move \in LegalMoves(board, zobrist)

\* Move k of the list last loaded is reached and matches a generated move
\* that make_move refuses.
Refused(k) ==
    \E st \in {ReplayedPrefix(k - 1)} :
       /\ ~st.done
       /\ \E found \in {MatchingMoves(generate_moves(st.board), g.replayed[k])} :
             /\ found # {}
             /\ ~make_move(st.board, st.zpos, generate_moves(st.board)[Min(found)],
                           AllMoves).ok

\* C30 as stated: a move given to load_moves that matches a generated move
\* but leaves the mover's king attacked changes nothing: position, key,
\* snapshot depth and repetition_index are after it what they were before it.
C30_RefusedMoveChangesNothing ==
    g.last.op = "load_moves" =>
        \A k \in 1..Len(g.replayed) :
           Refused(k) =>
              \E before \in {ReplayedPrefix(k - 1)}, after \in {ReplayedPrefix(k)} :
                 /\ Visible(after.board, after.zpos) = Visible(before.board, before.zpos)
                 /\ Len(after.board.snapshots) = Len(before.board.snapshots)
                 /\ after.board.repetition_index = before.board.repetition_index

\* C29: when think returns, the pieces, occupancies, side to move, en
\* passant square, castling rights, key, ply, repetition_index and snapshot
\* depth are what they were just before the call.
C29_ThinkRestoresBoard ==
    g.last.op = "bestmove" =>
        /\ Visible(board, zobrist) = g.root.visible
        /\ board.ply = g.root.ply
        /\ board.repetition_index = g.root.repetition_index
        /\ Len(board.snapshots) = g.root.snapshots

C29_Witness ==
    /\ g.last.op = "bestmove"
    /\ {"illegal move", "null move", "re-search", "beta cutoff", "stop"} \subseteq g.seen
    /\ Visible(board, zobrist) = g.root.visible
    /\ board.ply = 0

(***************************************************************************)
(* SpecOrder: the move ordering of one node.  think zeroes history_moves   *)
(* and from then on every alpha raise by a quiet move adds the depth of    *)
(* its node to one cell (search.rs:362); nothing caps or ages the cells,   *)
(* so the node is entered with one cell holding a sum of such depths.      *)
(* The steps are the alpha raises and killer stores of the nodes searched   *)
(* before, then the sort of the node itself.                               *)
(***************************************************************************)
MaxRaises == 1
OrderDepths == {1, 2}
OrderPositions == {PosMateOrCapture}
HistoryValues == {SECOND_KILLER_MOVE - 1, SECOND_KILLER_MOVE + 1, FIRST_KILLER_MOVE + 1,
                  MVV_LVA_BONUS + 700, PV_MOVE_SCORE + 1}

QuietMoves(b) ==
    {piece_move \in {generate_moves(b)[i] : i \in 1..Len(generate_moves(b))} :
        ~is_capture(piece_move)}

OrderHistories(b) ==
    {<<>>} \cup {ArrSet(<<>>, <<piece(piece_move), target(piece_move)>>, sum) :
                    piece_move \in QuietMoves(b), sum \in HistoryValues}

InitOrder ==
    \E fen_parts \in OrderPositions :
       \E history_moves \in OrderHistories(load_position(BoardState_new, fen_parts)) :
          /\ board = load_position(BoardState_new, fen_parts)
          /\ zobrist = hash_position(fen_parts.positions, fen_parts.side_to_move,
                                     fen_parts.en_passant, fen_parts.castling_rights)
          /\ search = [SearchState_new EXCEPT !.history_moves = history_moves]
          /\ tt = <<>>
          /\ tm = [control |-> "none"]
          /\ frames = <<>>
          /\ phase = "idle"
          /\ out = <<>>
          /\ g = [loaded |-> TRUE, fen |-> fen_parts, raises |-> 0, last |-> NoCall]

OrderRaise(piece_move, depth) ==
    /\ g.last.op # "sorted"
    /\ g.raises < MaxRaises
    /\ search' = raise_alpha(search, board.ply, depth, piece_move)
    /\ g' = [g EXCEPT !.raises = @ + 1, !.last = [op |-> "raise"]]
    /\ UNCHANGED <<board, zobrist, tt, tm, frames, phase, out>>

OrderCutoff(piece_move) ==
    /\ g.last.op # "sorted"
    /\ search' = store_killer(search, board.ply, piece_move)
    /\ g' = [g EXCEPT !.last = [op |-> "killer"]]
    /\ UNCHANGED <<board, zobrist, tt, tm, frames, phase, out>>

\* The node as sort_moves finds it: the generated moves, PV scoring enabled
\* when the node follows the PV and the PV move is among them.
OrderScored(follow) ==
    IF follow
    THEN enable_pv_scoring([search EXCEPT !.moves = generate_moves(board),
                                          !.follow_pv = TRUE], board.ply)
    ELSE [search EXCEPT !.moves = generate_moves(board), !.follow_pv = FALSE]

OrderSort(follow) ==
    /\ g.last.op # "sorted"
    /\ search' = sort_moves(board, OrderScored(follow))
    /\ g' = [g EXCEPT !.last = [op |-> "sorted", before |-> OrderScored(follow)]]
    /\ UNCHANGED <<board, zobrist, tt, tm, frames, phase, out>>

NextOrder ==
    \/ \E i \in 1..Len(generate_moves(board)) : \E depth \in OrderDepths :
          OrderRaise(generate_moves(board)[i], depth)
    \/ \E i \in 1..Len(generate_moves(board)) : OrderCutoff(generate_moves(board)[i])
    \/ \E follow \in BOOLEAN : OrderSort(follow)

SpecOrder == InitOrder /\ [][NextOrder]_vars

\* The place of a move in the stated priority, in the node sort_moves found.
OrderRank(b, srch, piece_move) ==
    IF IsPvMove(b, srch, piece_move) THEN 0
    ELSE IF is_capture(piece_move) THEN 1
    ELSE IF KillerAt(srch, 0, b.ply) = piece_move THEN 2
    ELSE IF KillerAt(srch, 1, b.ply) = piece_move THEN 3
    ELSE 4

\* C25 as stated: sort_moves leaves the PV move (when PV scoring is on)
\* before every capture, every capture before the first killer, the first
\* killer before the second, both killers before every other quiet move,
\* and the other quiet moves by their history_moves value.
C25_SortFollowsPriority ==
    g.last.op = "sorted" =>
        \A i, j \in 1..Len(search.moves) :
           i < j =>
              /\ OrderRank(board, g.last.before, search.moves[i])
                    <= OrderRank(board, g.last.before, search.moves[j])
              /\ OrderRank(board, g.last.before, search.moves[i]) = 4
                    /\ OrderRank(board, g.last.before, search.moves[j]) = 4
                 => HistoryAt(search, piece(search.moves[i]), target(search.moves[i]))
                       >= HistoryAt(search, piece(search.moves[j]), target(search.moves[j]))

\* pv can be played from the position b, one move after another: each move
\* is among the generated moves of the position reached and make_move
\* accepts it.
RECURSIVE Playable(_, _, _)
Playable(b, zpos, pv) ==
    \/ pv = <<>>
    \/ /\ Head(pv) \in LegalMoves(b, zpos)
       /\ \E made \in {make_move(b, zpos, Head(pv), AllMoves)} :
             Playable(made.board, made.zpos, Tail(pv))

\* C28 as stated: the principal variation of every info line can be played
\* from the root position, each move legal in the position reached by those
\* before it.
C28_PrintedPvIsPlayable ==
    (g.last.op = "iterated" /\ ~g.last.failed) =>
        Playable(board, zobrist, out[Len(out)].pv)

(***************************************************************************)
(* SpecSession: new_game, load_position and load_moves called one after    *)
(* another on the same Milky, as a front end does that sends the position  *)
(* and the moves of the game before every search.  No list is longer than  *)
(* MAX_REPETITIONS - 2 * MAX_PLY - 1 moves.                                *)
(***************************************************************************)
MaxSessionSnapshots == 1152
SessionLengths == {32}
SessionPositions == {PosKings}

\* e2d1 e8d8 d1e2 d8e8, over and over.
KingsShuffle ==
    <<<<SquareAt(4, 2), D1, NoPromotion>>, <<E8, D8, NoPromotion>>,
      <<D1, SquareAt(4, 2), NoPromotion>>, <<D8, E8, NoPromotion>>>>

Shuffle(n) == [i \in 1..n |-> KingsShuffle[((i - 1) % 4) + 1]]

SessionNewGame ==
    /\ phase = "idle"
    /\ g.last.op # "new_game"
    /\ tt' = TranspositionTable_clear(tt)
    /\ board' = BoardState_reset(board)
    /\ g' = [g EXCEPT !.last = [op |-> "new_game"]]
    /\ UNCHANGED <<zobrist, search, tm, frames, phase, out>>

SessionPosition(fen_parts) ==
    /\ phase = "idle"
    /\ board' = load_position(board, fen_parts)
    /\ zobrist' = hash_position(fen_parts.positions, fen_parts.side_to_move,
                                fen_parts.en_passant, fen_parts.castling_rights)
    /\ g' = [g EXCEPT !.loaded = TRUE, !.fen = fen_parts, !.last = [op |-> "load"]]
    /\ UNCHANGED <<search, tt, tm, frames, phase, out>>

SessionMoves(mvs) ==
    /\ phase = "idle"
    /\ g.loaded
    /\ Len(board.snapshots) + Len(mvs) <= MaxSessionSnapshots
    /\ \E r \in {load_moves([board |-> board, zpos |-> zobrist, moves |-> search.moves,
                              panic |-> FALSE, done |-> FALSE, game |-> <<>>], mvs)} :
          /\ board' = r.board
          /\ zobrist' = r.zpos
          /\ search' = [search EXCEPT !.moves = r.moves]
          /\ phase' = IF r.panic THEN "panicked" ELSE "idle"
          /\ g' = [g EXCEPT !.last = [op |-> "load_moves", replayed |-> Len(mvs),
                                      before |-> board.repetition_index]]
    /\ UNCHANGED <<tt, tm, frames, out>>

NextSession ==
    \/ SessionNewGame
    \/ \E fen_parts \in SessionPositions : SessionPosition(fen_parts)
    \/ \E n \in SessionLengths : SessionMoves(Shuffle(n))

SpecSession == Init /\ [][NextSession]_vars

\* C27 as stated: when no load_moves call replays more than
\* MAX_REPETITIONS - 2 * MAX_PLY - 1 moves, record_repetition is never
\* called with repetition_index at the last slot of the table.
C27_RecordRepetitionStaysInTable ==
    (\A n \in SessionLengths : n <= MAX_REPETITIONS - 2 * MAX_PLY - 1) =>
        ~(phase = "panicked" /\ g.last.op = "load_moves" /\ record_repetition_panics(board))

(***************************************************************************)
(* SpecDeep: negamax entered close to MAX_PLY.  The board is the one the   *)
(* search holds after it has descended along a line of that many moves,    *)
(* each made the way the move loop makes it (ply += 1, record_repetition,  *)
(* make_move), one move a step; no position of the line occurs twice.     *)
(* The activations above the call are stood for by one frame that waits    *)
(* for its value.                                                          *)
(***************************************************************************)
DeepPlies == {MAX_PLY - 3, MAX_PLY - 2, MAX_PLY - 1, MAX_PLY}
DeepDepths == {0, 1, 2, 3}
DeepWindows == {<<-INFINITY, INFINITY>>, <<0, 1>>}

\* 4k3/8/8/1p6/P7/8/4K3/8 w - -
PosKingsAndPawns ==
    FenParts({<<WhiteKing, SquareAt(4, 2)>>, <<WhitePawn, SquareAt(0, 4)>>,
              <<BlackKing, E8>>, <<BlackPawn, SquareAt(1, 5)>>}, White, OffBoard, 0)

\* The white king goes round e2 d1 c2 d3 e3, the black king round
\* e8 d8 c8 c7 d6 e6 f7: the same pair of squares comes back after 35 moves
\* of each side.
WhiteRound == <<SquareAt(4, 2), D1, SquareAt(2, 2), SquareAt(3, 3), SquareAt(4, 3)>>
BlackRound == <<E8, D8, SquareAt(2, 8), SquareAt(2, 7), SquareAt(3, 6), SquareAt(4, 6),
                SquareAt(5, 7)>>

\* The i-th move of the line, i from 1: white moves on odd i.
LineMove(i) ==
    IF i % 2 = 1
    THEN <<WhiteRound[(((i - 1) \div 2) % 5) + 1], WhiteRound[(((i + 1) \div 2) % 5) + 1],
           NoPromotion>>
    ELSE <<BlackRound[(((i - 2) \div 2) % 7) + 1], BlackRound[((i \div 2) % 7) + 1],
           NoPromotion>>

InitDeep ==
    /\ board = load_position(BoardState_new, PosKingsAndPawns)
    /\ zobrist = hash_position(PosKingsAndPawns.positions, PosKingsAndPawns.side_to_move,
                               PosKingsAndPawns.en_passant,
                               PosKingsAndPawns.castling_rights)
    /\ search = SearchState_new
    /\ tt = <<>>
    /\ tm = TimeManager_new(Infinite)
    /\ frames = <<[Frame("search_position", -INFINITY, INFINITY, 1)
                      EXCEPT !.stage = "iteration"]>>
    /\ phase = "searching"
    /\ out = <<>>
    /\ g = [loaded |-> TRUE, fen |-> PosKingsAndPawns, replayed |-> <<>>,
            game |-> <<>>, path |-> <<>>, stack |-> <<>>, last |-> [op |-> "line"],
            searched |-> TRUE, stopped |-> FALSE,
            completed |-> [depth |-> 0, best |-> MoveDefault],
            held |-> MoveDefault, seen |-> {},
            root |-> [visible |-> <<>>, ply |-> 0, repetition_index |-> 0,
                      snapshots |-> 0]]

\* One more move down the line.
DeepStep ==
    /\ phase = "searching"
    /\ Len(frames) = 1
    /\ g.last.op = "line"
    /\ board.ply < MAX_PLY
    /\ \E made \in {attempt(board, zobrist,
                            generate_moves(board)[
                                Min(MatchingMoves(generate_moves(board),
                                                  LineMove(board.ply + 1)))],
                            AllMoves)} :
          /\ made.ok
          /\ board' = made.board
          /\ zobrist' = made.zpos
    /\ UNCHANGED <<search, tt, tm, frames, phase, out, g>>

\* The call at the end of the line.
DeepCall(depth, window) ==
    /\ phase = "searching"
    /\ Len(frames) = 1
    /\ g.last.op = "line"
    /\ board.ply \in DeepPlies
    /\ frames' = Append(frames, Frame("negamax", window[1], window[2], depth))
    /\ g' = [g EXCEPT !.last = [op |-> "entered", ply |-> board.ply]]
    /\ UNCHANGED <<board, zobrist, search, tt, tm, phase, out>>

NextDeep ==
    \/ DeepStep
    \/ \E depth \in DeepDepths, window \in DeepWindows : DeepCall(depth, window)
    \/ NegamaxEnter
    \/ NegamaxNullReturn
    \/ NegamaxGenerate
    \/ NegamaxNextMove
    \/ NegamaxChildReturn
    \/ QuiescenceEnter
    \/ QuiescenceNextMove
    \/ QuiescenceChildReturn

SpecDeep == InitDeep /\ [][NextDeep]_vars

\* C23 as stated: a negamax call entered with ply >= MAX_PLY that neither
\* the repetition check nor the transposition table ends does not fault, and
\* no call reads or writes pv_length at an index >= MAX_PLY.
C23_DeepCallDoesNotFault ==
    ~(phase = "panicked" /\ g.last.op = "panic" /\ g.last.why = "pv_length")

====
